---------------------------- MODULE Spec2Model ----------------------------
(***************************************************************************)
(* Result decoding of the cfd1 client: the Row and Rows cursors of rows.go *)
(* and the coercion function assign they scan with; the Client with its    *)
(* Handle, and the database/sql driver built on them (driver.go).          *)
(*                                                                         *)
(* A Go value (any) is a record [k, n, s, hi]:                             *)
(*   k   its reflect.Kind ("nil" for the nil interface, "bytes" for        *)
(*       []byte, "time" for time.Time, "struct" for any other struct);     *)
(*   n   its number: an integer, a boolean as 1/0, a float in hundredths   *)
(*       (3.99 is 399), a time.Time as Unix seconds;                       *)
(*   s   its text, as the sequence of its bytes ("42" is <<52, 50>>);      *)
(*       for a time.Time <<1>> marks a set time, <<>> the zero Time;       *)
(*   hi  1 when the number is n + 2^bits of its kind (a negative number    *)
(*       wrapped into a 32 or 64 bit unsigned integer), else 0.            *)
(***************************************************************************)
EXTENDS Integers, Sequences, FiniteSets, TLC

VARIABLES rows, row, last, hist, remote, client, conn, stmt, cur

vars == <<rows, row, last, hist, remote, client, conn, stmt, cur>>

\* the objects of the database/sql driver and of the client behind it
driverVars == <<remote, client, conn, stmt, cur>>

\* the Row and Rows cursors
cursorVars == <<rows, row>>

\* a nil pointer
Nil == [null |-> TRUE]

\* no client, connection, statement or driver cursor exists and the remote
\* service has not been called
DriverIdle ==
  /\ remote = [lists |-> 0, queries |-> 0, db |-> <<>>]
  /\ client = Nil
  /\ conn = Nil
  /\ stmt = Nil
  /\ cur = Nil

-----------------------------------------------------------------------------
(* Go values *)

SignedKinds == {"int", "int8", "int16", "int32", "int64"}

UnsignedKinds == {"uint", "uint8", "uint16", "uint32", "uint64"}

FloatKinds == {"float32", "float64"}

Val(k, n, s) == [k |-> k, n |-> n, s |-> s, hi |-> 0]

NilVal == Val("nil", 0, <<>>)

BoolVal(b) == Val("bool", IF b THEN 1 ELSE 0, <<>>)

StrVal(s) == Val("string", 0, s)

TimeUnix(sec) == Val("time", sec, <<1>>)

\* reflect.Zero(t): the zero value of the type of kind k
Zero(k) == Val(k, 0, <<>>)

\* reflect.Type.Bits of an integer kind (int and uint are 64 bits wide)
Bits(k) ==
  CASE k \in {"int8", "uint8"} -> 8
    [] k \in {"int16", "uint16"} -> 16
    [] k \in {"int32", "uint32"} -> 32
    [] OTHER -> 64

Pow2(e) == IF e = 8 THEN 256 ELSE 65536

\* The integer x stored in an integer type of kind k, as the conversions of
\* reflect (makeInt) and the machine store it: reduced modulo 2^Bits(k).
StoreInt(k, x) ==
  IF Bits(k) <= 16
  THEN LET m == Pow2(Bits(k))
           y == x % m
       IN  IF k \in SignedKinds /\ 2 * y >= m
           THEN Val(k, y - m, <<>>)
           ELSE Val(k, y, <<>>)
  ELSE IF k \in UnsignedKinds /\ x < 0
       THEN [k |-> k, n |-> x, s |-> <<>>, hi |-> 1]
       ELSE Val(k, x, <<>>)

\* int64(f) of a float given in hundredths: truncation toward zero
Trunc(h) == IF h >= 0 THEN h \div 100 ELSE -((-h) \div 100)


-----------------------------------------------------------------------------
(* strconv and the string conversions of the Go runtime, on byte sequences. *)
(* Bytes: '0'..'9' are 48..57, '+' 43, '-' 45, '.' 46, 'a'..'z' 97..122,   *)
(* 'A'..'Z' 65..90.  The texts of the model hold no '_', no exponent and   *)
(* at most two fraction digits.                                            *)

RECURSIVE FormatUint(_)
\* strconv.FormatUint(n, 10), and strconv.FormatInt(n, 10) for n >= 0
FormatUint(n) ==
  IF n < 10 THEN <<48 + n>> ELSE Append(FormatUint(n \div 10), 48 + (n % 10))

\* strconv.FormatInt(n, 10)
FormatInt(n) == IF n < 0 THEN <<45>> \o FormatUint(-n) ELSE FormatUint(n)

\* strconv.FormatBool
FormatBool(b) == IF b = 1 THEN <<116, 114, 117, 101>> ELSE <<102, 97, 108, 115, 101>>

\* strconv.FormatFloat(f, 'f', -1, 64) of a float given in hundredths: the
\* shortest decimal text that reads back as f
FormatFloat(h) ==
  LET a == IF h < 0 THEN -h ELSE h
      sign == IF h < 0 THEN <<45>> ELSE <<>>
      whole == FormatUint(a \div 100)
      frac == a % 100
  IN  sign \o whole \o
      (IF frac = 0 THEN <<>>
       ELSE IF frac % 10 = 0 THEN <<46, 48 + (frac \div 10)>>
       ELSE <<46, 48 + (frac \div 10), 48 + (frac % 10)>>)

\* string(rune(n)), the conversion reflect's Convert applies from an integer
\* to a string: the UTF-8 encoding of the code point n, U+FFFD when n is
\* no valid code point
RuneString(n) ==
  IF n < 0 \/ n > 1114111 \/ (n >= 55296 /\ n <= 57343) THEN <<239, 191, 189>>
  ELSE IF n < 128 THEN <<n>>
  ELSE IF n < 2048 THEN <<192 + (n \div 64), 128 + (n % 64)>>
  ELSE IF n < 65536
       THEN <<224 + (n \div 4096), 128 + ((n \div 64) % 64), 128 + (n % 64)>>
  ELSE <<240 + (n \div 262144), 128 + ((n \div 4096) % 64),
         128 + ((n \div 64) % 64), 128 + (n % 64)>>

\* lower(c) of strconv: c | ('x' - 'X')
Lower(c) == IF c >= 65 /\ c <= 90 THEN c + 32 ELSE c

\* the digit a byte stands for in ParseUint, -1 for a byte that is none
DigitOf(c) ==
  IF c >= 48 /\ c <= 57 THEN c - 48
  ELSE IF Lower(c) >= 97 /\ Lower(c) <= 122 THEN Lower(c) - 97 + 10
  ELSE -1

RECURSIVE DigitsValue(_, _, _)
\* the digit loop of ParseUint: the number the digits of s spell in the base,
\* continuing from acc; -1 for a syntax error
DigitsValue(s, base, acc) ==
  IF s = <<>> THEN acc
  ELSE LET d == DigitOf(Head(s))
       IN  IF d < 0 \/ d >= base THEN -1
           ELSE DigitsValue(Tail(s), base, acc * base + d)

Drop(s, k) == SubSeq(s, k + 1, Len(s))

\* strconv.ParseUint(s, 0, bits): [ok, n]; the base comes from the prefix
\* (0b, 0o, 0x, or a leading 0 for octal), and a number of more than bits
\* bits is a range error
ParseUint(s, bits) ==
  IF s = <<>> THEN [ok |-> FALSE, n |-> 0]
  ELSE LET pre == s[1] = 48
           long == pre /\ Len(s) >= 3
           base == IF long /\ Lower(s[2]) = 98 THEN 2
                   ELSE IF long /\ Lower(s[2]) = 111 THEN 8
                   ELSE IF long /\ Lower(s[2]) = 120 THEN 16
                   ELSE IF pre THEN 8
                   ELSE 10
           body == IF long /\ Lower(s[2]) \in {98, 111, 120} THEN Drop(s, 2)
                   ELSE IF pre THEN Drop(s, 1)
                   ELSE s
           n == DigitsValue(body, base, 0)
       IN  IF n < 0 THEN [ok |-> FALSE, n |-> 0]
           ELSE IF bits <= 16 /\ n >= Pow2(bits) THEN [ok |-> FALSE, n |-> 0]
           ELSE [ok |-> TRUE, n |-> n]

\* strconv.ParseInt(s, 0, bits): [ok, n]
ParseInt(s, bits) ==
  IF s = <<>> THEN [ok |-> FALSE, n |-> 0]
  ELSE LET neg == s[1] = 45
           body == IF s[1] \in {43, 45} THEN Drop(s, 1) ELSE s
           un == ParseUint(body, 64)
       IN  IF ~un.ok THEN [ok |-> FALSE, n |-> 0]
           ELSE IF bits <= 16 /\ ~neg /\ 2 * un.n >= Pow2(bits)
           THEN [ok |-> FALSE, n |-> 0]
           ELSE IF bits <= 16 /\ neg /\ 2 * un.n > Pow2(bits)
           THEN [ok |-> FALSE, n |-> 0]
           ELSE [ok |-> TRUE, n |-> IF neg THEN -un.n ELSE un.n]

\* strconv.ParseBool: [ok, n] with n = 1 for true; the accepted texts are
\* 1 t T TRUE true True and 0 f F FALSE false False
ParseBool(s) ==
  IF s \in {<<49>>, <<116>>, <<84>>, <<84, 82, 85, 69>>, <<116, 114, 117, 101>>,
            <<84, 114, 117, 101>>}
  THEN [ok |-> TRUE, n |-> 1]
  ELSE IF s \in {<<48>>, <<102>>, <<70>>, <<70, 65, 76, 83, 69>>,
                 <<102, 97, 108, 115, 101>>, <<70, 97, 108, 115, 101>>}
  THEN [ok |-> TRUE, n |-> 0]
  ELSE [ok |-> FALSE, n |-> 0]

IsDigits(s) == \A i \in 1..Len(s) : s[i] >= 48 /\ s[i] <= 57

\* strconv.ParseFloat on a decimal text: [ok, n] with n in hundredths
ParseFloat(s) ==
  LET signed == s # <<>> /\ s[1] \in {43, 45}
      neg == s # <<>> /\ s[1] = 45
      body == IF signed THEN Drop(s, 1) ELSE s
      dots == {i \in 1..Len(body) : body[i] = 46}
      dot == IF dots = {} THEN Len(body) + 1 ELSE CHOOSE i \in dots : TRUE
      whole == SubSeq(body, 1, dot - 1)
      frac == SubSeq(body, dot + 1, Len(body))
      fracH == IF Len(frac) = 0 THEN 0
               ELSE IF Len(frac) = 1 THEN 10 * (frac[1] - 48)
               ELSE 10 * (frac[1] - 48) + (frac[2] - 48)
      mag == 100 * DigitsValue(whole, 10, 0) + fracH
  IN  IF Cardinality(dots) > 1 \/ Len(whole) + Len(frac) = 0
         \/ ~IsDigits(whole) \/ ~IsDigits(frac) \/ Len(frac) > 2
      THEN [ok |-> FALSE, n |-> 0]
      ELSE [ok |-> TRUE, n |-> IF neg THEN -mag ELSE mag]

-----------------------------------------------------------------------------
(* assign (rows.go).  A destination is a record [k, v]: k the kind of the  *)
(* type pointed to ("nilptr" for a nil pointer, "scanner" for a type that  *)
(* implements sql.Scanner) and v the value it holds.  The result of assign *)
(* is [err, dest]: err is "nil", "conversion" (the error of the last line),*)
(* "nonptr" ("destination must be a non-nil pointer") or "panic".          *)

Dest(k, v) == [k |-> k, v |-> v]

Result(e, d) == [err |-> e, dest |-> d]

\* assignNil with the store left out: the destination keeps its value
assignNil_KeepsValue(dest) ==
  IF dest.k = "nilptr" THEN Result("panic", dest) ELSE Result("nil", dest)

\* the fast path for a nil source: the destination is set to the zero value
\* of its type (reflect panics on a nil destination pointer)
assignNil(dest) ==
  IF dest.k = "nilptr" THEN Result("panic", dest)
  ELSE Result("nil", Dest(dest.k, Zero(dest.k)))

\* the guard of the special case "int -> string": a string destination and a
\* source whose kind is Int or Uint
isIntToString(dk, sk) == dk = "string" /\ (sk = "int" \/ sk = "uint")

\* the special case before ConvertibleTo: the decimal digits of the number
assignDigits(dest, src) ==
  IF src.k \in SignedKinds
  THEN Result("nil", Dest("string", StrVal(FormatInt(src.n))))
  ELSE Result("nil", Dest("string", StrVal(FormatUint(src.n))))

\* reflect.Type.ConvertibleTo between the kinds of the model
ConvertibleTo(sk, dk) ==
  LET num == SignedKinds \cup UnsignedKinds \cup FloatKinds
  IN  \/ sk \in num /\ dk \in num
      \/ sk \in SignedKinds \cup UnsignedKinds /\ dk = "string"
      \/ sk \in {"string", "bytes"} /\ dk \in {"string", "bytes"}
      \/ sk = dk /\ sk \in {"bool", "time", "struct"}

\* uint64(f) of a float whose truncation x is negative is implementation
\* dependent: amd64 wraps it modulo 2^64, arm64 saturates it to 0
FloatToUint(k, x, arch) ==
  IF x < 0 /\ arch = "arm64" THEN Val(k, 0, <<>>) ELSE StoreInt(k, x)

\* reflect.Value.Convert to the type of kind dk
Convert(src, dk, arch) ==
  CASE src.k \in SignedKinds \cup UnsignedKinds /\ dk \in SignedKinds \cup UnsignedKinds
         -> StoreInt(dk, src.n)
    [] src.k \in FloatKinds /\ dk \in SignedKinds -> StoreInt(dk, Trunc(src.n))
    [] src.k \in FloatKinds /\ dk \in UnsignedKinds -> FloatToUint(dk, Trunc(src.n), arch)
    [] src.k \in SignedKinds \cup UnsignedKinds /\ dk \in FloatKinds
         -> Val(dk, 100 * src.n, <<>>)
    [] src.k \in FloatKinds /\ dk \in FloatKinds -> Val(dk, src.n, <<>>)
    [] src.k \in SignedKinds \cup UnsignedKinds /\ dk = "string"
         -> StrVal(RuneString(src.n))
    [] OTHER -> [src EXCEPT !.k = dk]

\* the fast path "types match directly"
assignConvert(dest, src, arch) == Result("nil", Dest(dest.k, Convert(src, dest.k, arch)))

Failed(dest) == Result("conversion", dest)

Stored(dest, v) == Result("nil", Dest(dest.k, v))

\* case reflect.String of the special case conversions
toString(dest, src) ==
  CASE src.k \in FloatKinds -> Stored(dest, StrVal(FormatFloat(src.n)))
    [] src.k = "bool" -> Stored(dest, StrVal(FormatBool(src.n)))
    [] OTHER -> Failed(dest)

\* case reflect.Int .. reflect.Int64
toInt(dest, src) ==
  CASE src.k = "string" ->
         LET p == ParseInt(src.s, Bits(dest.k))
         IN  IF p.ok THEN Stored(dest, Val(dest.k, p.n, <<>>)) ELSE Failed(dest)
    [] src.k = "bool" -> Stored(dest, Val(dest.k, src.n, <<>>))
    [] OTHER -> Failed(dest)

\* case reflect.Uint .. reflect.Uint64
toUint(dest, src) ==
  CASE src.k = "string" ->
         LET p == ParseUint(src.s, Bits(dest.k))
         IN  IF p.ok THEN Stored(dest, Val(dest.k, p.n, <<>>)) ELSE Failed(dest)
    [] src.k = "bool" -> Stored(dest, Val(dest.k, src.n, <<>>))
    [] OTHER -> Failed(dest)

\* case reflect.Float32, reflect.Float64
toFloat(dest, src) ==
  CASE src.k = "string" ->
         LET p == ParseFloat(src.s)
         IN  IF p.ok THEN Stored(dest, Val(dest.k, p.n, <<>>)) ELSE Failed(dest)
    [] src.k = "bool" -> Stored(dest, Val(dest.k, 100 * src.n, <<>>))
    [] OTHER -> Failed(dest)

\* case reflect.Bool
toBool(dest, src) ==
  CASE src.k = "string" ->
         LET p == ParseBool(src.s)
         IN  IF p.ok THEN Stored(dest, BoolVal(p.n = 1)) ELSE Failed(dest)
    [] src.k \in SignedKinds \cup UnsignedKinds \cup FloatKinds ->
         Stored(dest, BoolVal(src.n # 0))
    [] OTHER -> Failed(dest)

\* case reflect.Struct with a time.Time destination: a number is Unix
\* seconds, a text an RFC 3339 time or else a number of Unix seconds.  A text
\* of fewer than 20 bytes ("2006-01-02T15:04:05Z") is no RFC 3339 time, and
\* the model holds no longer one.
toTime(dest, src) ==
  CASE src.k \in SignedKinds \cup UnsignedKinds -> Stored(dest, TimeUnix(src.n))
    [] src.k = "float64" -> Stored(dest, TimeUnix(Trunc(src.n)))
    [] src.k = "string" /\ Len(src.s) < 20 ->
         LET p == ParseInt(src.s, 64)
         IN  IF p.ok THEN Stored(dest, TimeUnix(p.n)) ELSE Failed(dest)
    [] OTHER -> Failed(dest)

\* the switch on dt.Kind() and the error of the last line
assignSpecial(dest, src) ==
  CASE dest.k = "string" -> toString(dest, src)
    [] dest.k \in SignedKinds -> toInt(dest, src)
    [] dest.k \in UnsignedKinds -> toUint(dest, src)
    [] dest.k \in FloatKinds -> toFloat(dest, src)
    [] dest.k = "bool" -> toBool(dest, src)
    [] dest.k = "time" -> toTime(dest, src)
    [] OTHER -> Failed(dest)

\* func assign(dest, src any) error
assign(dest, src, arch) ==
  IF src.k = "nil" THEN assignNil(dest)
  ELSE IF dest.k = "nilptr" THEN Result("nonptr", dest)
  ELSE IF dest.k = "scanner" THEN Result("nil", dest)
  ELSE IF isIntToString(dest.k, src.k) THEN assignDigits(dest, src)
  ELSE IF ConvertibleTo(src.k, dest.k) THEN assignConvert(dest, src, arch)
  ELSE assignSpecial(dest, src)

-----------------------------------------------------------------------------
(* createFieldMap and scanStructWithMap (rows.go).  A struct type is a     *)
(* sequence of fields [Name, db, sql, json, k]: the name and the tag       *)
(* values as byte sequences (<<>> for an absent tag) and the kind of the   *)
(* field's type.  A fieldMap is [null, m]: null for the nil map, m the     *)
(* function from key to field index.                                       *)

NilMap == [null |-> TRUE, m |-> <<>>]

\* strings.ToLower on ASCII text
ToLower(s) == [i \in 1..Len(s) |-> Lower(s[i])]

\* fieldKey looking at the sql tag before the db tag
fieldKey_SqlFirst(field) ==
  IF field.sql # <<>> THEN field.sql
  ELSE IF field.db # <<>> THEN field.db
  ELSE IF field.json # <<>> THEN field.json
  ELSE ToLower(field.Name)

\* the key createFieldMap gives a field: the db tag, else the sql tag, else
\* the json tag, else the lower-cased field name
fieldKey(field) ==
  IF field.db # <<>> THEN field.db
  ELSE IF field.sql # <<>> THEN field.sql
  ELSE IF field.json # <<>> THEN field.json
  ELSE ToLower(field.Name)

\* the first tag present is "-": the field is left out of the map
fieldSkipped(field) ==
  IF field.db # <<>> THEN field.db = <<45>>
  ELSE IF field.sql # <<>> THEN field.sql = <<45>>
  ELSE IF field.json # <<>> THEN field.json = <<45>>
  ELSE FALSE

RECURSIVE fieldMapUpTo(_, _)
\* the map after the loop of createFieldMap has passed the first n fields
fieldMapUpTo(t, n) ==
  IF n = 0 THEN <<>>
  ELSE IF fieldSkipped(t[n]) THEN fieldMapUpTo(t, n - 1)
  ELSE CHOOSE m \in {[x \in DOMAIN prev \cup {key} |-> IF x = key THEN n - 1 ELSE prev[x]] :
                      prev \in {fieldMapUpTo(t, n - 1)}, key \in {fieldKey(t[n])}} : TRUE

\* func createFieldMap(t reflect.Type) map[string]int
createFieldMap(t) == [null |-> FALSE, m |-> fieldMapUpTo(t, Len(t))]

\* reflect.Value.CanSet of a field of an addressable struct: the field is
\* exported (its name starts with an upper-case letter)
CanSet(field) == field.Name[1] >= 65 /\ field.Name[1] <= 90

RECURSIVE scanStructFrom(_, _, _, _, _, _, _)
\* the loop of scanStructWithMap from column i (1-based) on: [ret, col, v];
\* reflect panics when the mapped index is no field of the destination
scanStructFrom(i, cols, vals, t, v, fm, arch) ==
  IF i > Len(cols) THEN [ret |-> "nil", col |-> -1, v |-> v]
  ELSE LET key == ToLower(cols[i])
       IN  IF key \notin DOMAIN fm.m
           THEN scanStructFrom(i + 1, cols, vals, t, v, fm, arch)
           ELSE LET f == fm.m[key] + 1
                IN  IF f > Len(t) THEN [ret |-> "panic", col |-> i - 1, v |-> v]
                    ELSE IF ~CanSet(t[f])
                    THEN scanStructFrom(i + 1, cols, vals, t, v, fm, arch)
                    ELSE IF vals[i].k = "nil"
                    THEN scanStructFrom(i + 1, cols, vals, t,
                                        [v EXCEPT ![f] = Zero(t[f].k)], fm, arch)
                    ELSE CHOOSE r \in
                           {IF a.err # "nil"
                            THEN [ret |-> "error assigning column", col |-> i - 1, v |-> v]
                            ELSE scanStructFrom(i + 1, cols, vals, t,
                                                [v EXCEPT ![f] = a.dest.v], fm, arch) :
                              a \in {assign(Dest(t[f].k, v[f]), vals[i], arch)}} : TRUE

\* scanStructWithMap zeroing the destination before it scans
scanStructWithMap_ResetsFirst(cols, vals, t, v, fm, arch) ==
  CHOOSE r \in {scanStructFrom(1, cols, vals, t, v0, m, arch) :
                  v0 \in {[f \in 1..Len(t) |-> Zero(t[f].k)]}, m \in {fm}} : TRUE

\* func scanStructWithMap(cols, row, v, fieldMap) error
scanStructWithMap(cols, vals, t, v, fm, arch) ==
  CHOOSE r \in {scanStructFrom(1, cols, vals, t, v0, m, arch) : v0 \in {v}, m \in {fm}} : TRUE

-----------------------------------------------------------------------------
(* Row and Rows (rows.go).  A RawQueryResult is [Columns, Rows].  An error *)
(* is a string, "nil" for no error.  A pointer into the slice result is    *)
(* the index of its element, -1 for the nil pointer.  A *Rows is           *)
(* [null, err, result, resultNil, rs, current, currentSet, fieldMap] and a *)
(* *Row [null, err, result, resultNil, fieldMap]: null for a nil receiver, *)
(* resultNil for a nil slice (Rows) or a nil result pointer (Row).         *)

NoErr == "nil"

ErrNoRows == "sql: no rows in result set"

\* newRows without "ret.rs = &result[0]": the active set stays nil
newRows_NoActiveSet(result, resultNil, err) ==
  IF err # NoErr
  THEN [null |-> FALSE, err |-> err, result |-> <<>>, resultNil |-> TRUE, rs |-> -1,
        current |-> 0, currentSet |-> 0, fieldMap |-> [null |-> TRUE, m |-> <<>>]]
  ELSE [null |-> FALSE, err |-> "nil", result |-> result, resultNil |-> resultNil,
        rs |-> -1, current |-> -1, currentSet |-> 0, fieldMap |-> [null |-> TRUE, m |-> <<>>]]

\* func newRows(result []RawQueryResult, err error) *Rows
newRows(result, resultNil, err) ==
  IF err # NoErr
  THEN [null |-> FALSE, err |-> err, result |-> <<>>, resultNil |-> TRUE, rs |-> -1,
        current |-> 0, currentSet |-> 0, fieldMap |-> NilMap]
  ELSE [null |-> FALSE, err |-> NoErr, result |-> result, resultNil |-> resultNil,
        rs |-> IF Len(result) > 0 THEN 0 ELSE -1,
        current |-> -1, currentSet |-> 0, fieldMap |-> NilMap]

\* func newRow(result *RawQueryResult, err error) *Row
newRow(result, resultNil, err) ==
  IF err # NoErr
  THEN [null |-> FALSE, err |-> err, result |-> <<>>, resultNil |-> TRUE,
        fieldMap |-> NilMap]
  ELSE [null |-> FALSE, err |-> NoErr, result |-> result, resultNil |-> resultNil,
        fieldMap |-> NilMap]

\* a nil *Rows and a nil *Row
NilRows == [newRows(<<>>, TRUE, NoErr) EXCEPT !.null = TRUE]

NilRow == [newRow(<<>>, TRUE, NoErr) EXCEPT !.null = TRUE]

\* r.rs.Results.Rows, the rows of the active set (rs is not nil)
ActiveRows(r) == r.result[r.rs + 1].Rows

ActiveColumns(r) == r.result[r.rs + 1].Columns

\* Rows.Err without the check of the carried error
RowsErr_IgnoresCarried(r) ==
  IF r.null THEN ErrNoRows
  ELSE IF r.resultNil \/ r.currentSet >= Len(r.result) THEN ErrNoRows
  ELSE IF r.rs < 0 THEN "panic"
  ELSE IF Len(ActiveRows(r)) = 0 THEN ErrNoRows
  ELSE NoErr

\* func (r *Rows) Err() error; "panic" where the code dereferences a nil rs
RowsErr(r) ==
  IF r.null THEN ErrNoRows
  ELSE IF r.err # NoErr THEN r.err
  ELSE IF r.resultNil \/ r.currentSet >= Len(r.result) THEN ErrNoRows
  ELSE IF r.rs < 0 THEN "panic"
  ELSE IF Len(ActiveRows(r)) = 0 THEN ErrNoRows
  ELSE NoErr

\* Row.Err without the check of the number of rows
RowErr_NoLenCheck(r) ==
  IF r.null THEN ErrNoRows
  ELSE IF r.err # NoErr THEN r.err
  ELSE IF r.resultNil THEN ErrNoRows
  ELSE NoErr

\* func (r *Row) Err() error
RowErr(r) ==
  IF r.null THEN ErrNoRows
  ELSE IF r.err # NoErr THEN r.err
  ELSE IF r.resultNil \/ Len(r.result.Rows) = 0 THEN ErrNoRows
  ELSE NoErr

Bool(b) == IF b THEN "true" ELSE "false"

\* Rows.Next comparing with > where the code has >=: one row too many
RowsNext_PastEnd(r) ==
  IF RowsErr(r) = "panic" THEN [r |-> r, ret |-> "panic"]
  ELSE IF RowsErr(r) # NoErr THEN [r |-> r, ret |-> "false"]
  ELSE LET c == r.current + 1
       IN  [r |-> [r EXCEPT !.current = c], ret |-> Bool(c <= Len(ActiveRows(r)))]

\* Rows.Next starting over once it has passed the last row
RowsNext_Rewinds(r) ==
  IF RowsErr(r) = "panic" THEN [r |-> r, ret |-> "panic"]
  ELSE IF RowsErr(r) # NoErr THEN [r |-> r, ret |-> "false"]
  ELSE LET c == IF r.current >= Len(ActiveRows(r)) THEN 0 ELSE r.current + 1
       IN  [r |-> [r EXCEPT !.current = c], ret |-> Bool(c < Len(ActiveRows(r)))]

\* func (r *Rows) Next() bool: [r, ret], ret "true", "false" or "panic"
RowsNext(r) ==
  IF RowsErr(r) = "panic" THEN [r |-> r, ret |-> "panic"]
  ELSE IF RowsErr(r) # NoErr THEN [r |-> r, ret |-> "false"]
  ELSE LET c == r.current + 1
       IN  [r |-> [r EXCEPT !.current = c], ret |-> Bool(c < Len(ActiveRows(r)))]

\* Rows.NextSet without "r.rs = &r.result[r.currentSet]"
RowsNextSet_KeepsActiveSet(r) ==
  IF RowsErr(r) = "panic" THEN [r |-> r, ret |-> "panic"]
  ELSE IF RowsErr(r) # NoErr THEN [r |-> r, ret |-> "false"]
  ELSE LET cs == r.currentSet + 1
           moved == [r EXCEPT !.current = -1, !.currentSet = cs]
       IN  IF cs >= Len(r.result) THEN [r |-> moved, ret |-> "false"]
           ELSE [r |-> moved, ret |-> "true"]

\* func (r *Rows) NextSet() bool: [r, ret]
RowsNextSet(r) ==
  IF RowsErr(r) = "panic" THEN [r |-> r, ret |-> "panic"]
  ELSE IF RowsErr(r) # NoErr THEN [r |-> r, ret |-> "false"]
  ELSE LET cs == r.currentSet + 1
           moved == [r EXCEPT !.current = -1, !.currentSet = cs]
       IN  IF cs >= Len(r.result) THEN [r |-> moved, ret |-> "false"]
           ELSE [r |-> [moved EXCEPT !.rs = cs], ret |-> "true"]

RECURSIVE scanFrom_StopsEarly(_, _, _, _)
\* the loop of Scan leaving the last value of the row out
scanFrom_StopsEarly(i, vals, dest, arch) ==
  IF i > Len(vals) - 1 \/ i > Len(dest) THEN [ret |-> "nil", col |-> -1, dest |-> dest]
  ELSE CHOOSE r \in
         {IF a.err = "panic" THEN [ret |-> "panic", col |-> i - 1, dest |-> dest]
          ELSE IF a.err # "nil" THEN [ret |-> "column: " \o a.err, col |-> i - 1, dest |-> dest]
          ELSE scanFrom_StopsEarly(i + 1, vals, [dest EXCEPT ![i] = a.dest], arch) :
            a \in {assign(dest[i], vals[i], arch)}} : TRUE

RECURSIVE scanFrom(_, _, _, _)
\* (a ranges over the one result of assign, so that it is computed once)
\* the loop of Scan from value i (1-based) on: [ret, col, dest]; it ends at
\* the first of the end of the row, the end of dest and a failed assign
scanFrom(i, vals, dest, arch) ==
  IF i > Len(vals) \/ i > Len(dest) THEN [ret |-> NoErr, col |-> -1, dest |-> dest]
  ELSE CHOOSE r \in
         {IF a.err = "panic" THEN [ret |-> "panic", col |-> i - 1, dest |-> dest]
          ELSE IF a.err # "nil" THEN [ret |-> "column: " \o a.err, col |-> i - 1, dest |-> dest]
          ELSE scanFrom(i + 1, vals, [dest EXCEPT ![i] = a.dest], arch) :
            a \in {assign(dest[i], vals[i], arch)}} : TRUE

Returned(e, dest) == [ret |-> e, col |-> -1, dest |-> dest]

\* func (r *Row) Scan(dest ...interface{}) error: [ret, col, dest]; a nil
\* result and the index 0 of no rows panic
RowScan(r, dest, arch) ==
  IF RowErr(r) # NoErr THEN Returned(RowErr(r), dest)
  ELSE IF r.resultNil \/ Len(r.result.Rows) = 0 THEN Returned("panic", dest)
  ELSE scanFrom(1, r.result.Rows[1], dest, arch)

\* func (r *Rows) Scan(dest ...interface{}) error: [ret, col, dest]; indexing
\* the rows with current = -1 panics
RowsScan(r, dest, arch) ==
  IF RowsErr(r) # NoErr THEN Returned(RowsErr(r), dest)
  ELSE IF r.current >= Len(ActiveRows(r)) THEN Returned(ErrNoRows, dest)
  ELSE IF r.current < 0 THEN Returned("panic", dest)
  ELSE scanFrom(1, ActiveRows(r)[r.current + 1], dest, arch)

(* A destination of ScanStruct is [ptr, t, v]: ptr is "struct" for a non-nil *)
(* pointer to a struct of type t with field values v, "nil" for a nil        *)
(* pointer or a value that is no pointer, "other" for a pointer to a value   *)
(* that is no struct.                                                        *)

\* the checks of dest in ScanStruct
structDestErr(d) ==
  IF d.ptr = "nil" THEN "dest must be a non-nil pointer to struct"
  ELSE IF d.ptr # "struct" THEN "dest must be a pointer to struct"
  ELSE NoErr

\* if r.fieldMap == nil { r.fieldMap = createFieldMap(v.Type()) }
cachedFieldMap(fm, t) == IF fm.null THEN createFieldMap(t) ELSE fm

\* func (r *Row) ScanStruct(dest interface{}) error: [r, ret, col, v]
RowScanStruct(r, d, arch) ==
  IF RowErr(r) # NoErr THEN [r |-> r, ret |-> RowErr(r), col |-> -1, v |-> d.v]
  ELSE IF structDestErr(d) # NoErr
  THEN [r |-> r, ret |-> structDestErr(d), col |-> -1, v |-> d.v]
  ELSE LET fm == cachedFieldMap(r.fieldMap, d.t)
           rr == [r EXCEPT !.fieldMap = fm]
       IN  IF r.resultNil \/ Len(r.result.Rows) = 0
           THEN [r |-> rr, ret |-> "panic", col |-> -1, v |-> d.v]
           ELSE LET s == scanStructWithMap(r.result.Columns, r.result.Rows[1],
                                           d.t, d.v, fm, arch)
                IN  [r |-> rr, ret |-> s.ret, col |-> s.col, v |-> s.v]

\* func (r *Rows) ScanStruct(dest interface{}) error: [r, ret, col, v]; the
\* field map is stored before the row is indexed
RowsScanStruct(r, d, arch) ==
  IF RowsErr(r) # NoErr THEN [r |-> r, ret |-> RowsErr(r), col |-> -1, v |-> d.v]
  ELSE IF r.current >= Len(ActiveRows(r))
  THEN [r |-> r, ret |-> ErrNoRows, col |-> -1, v |-> d.v]
  ELSE IF structDestErr(d) # NoErr
  THEN [r |-> r, ret |-> structDestErr(d), col |-> -1, v |-> d.v]
  ELSE LET fm == cachedFieldMap(r.fieldMap, d.t)
           rr == [r EXCEPT !.fieldMap = fm]
       IN  IF r.current < 0 THEN [r |-> rr, ret |-> "panic", col |-> -1, v |-> d.v]
           ELSE LET s == scanStructWithMap(ActiveColumns(r), ActiveRows(r)[r.current + 1],
                                           d.t, d.v, fm, arch)
                IN  [r |-> rr, ret |-> s.ret, col |-> s.col, v |-> s.v]

-----------------------------------------------------------------------------
(* The inputs of the model: result sets as the remote executor returns     *)
(* them, and the destinations callers pass.                                *)

MaxSets == 2

MaxRows == 2

MaxDest == 2

\* calls of Next() on one set and of NextSet() the model follows: enough to
\* run past the last row of every set and past the last set of every batch,
\* and further on all but the largest
MaxNextCalls == MaxRows + 1

MaxNextSetCalls == MaxSets

\* the numbers of rows of a set: none, one, and the most
RowCounts == {0, 1, MaxRows}

\* the column names "ID", "name", "note"
ColumnNames == << <<73, 68>>, <<110, 97, 109, 101>>, <<110, 111, 116, 101>> >>

\* the number of columns of the j-th set of a batch: 3, 1, 2, 3, ..
NumCols(j) == ((j + 1) % 3) + 1

\* which of the three columns is column c of the j-th set
ColumnOf(j, c) == ((c + j - 2) % 3) + 1

\* the value of column c in row i (from 0) of the j-th set: for "ID" a number
\* (JSON numbers decode as float64: 0.99, -1.99, 2.99, .., 10.99, ..), for
\* "name" a text ("a" in row 0, then "1", "2", ..), for "note" NULL
Cell(j, i, c) ==
  CASE ColumnOf(j, c) = 1 ->
         Val("float64", (IF i % 2 = 1 THEN -1 ELSE 1) * (100 * (10 * (j - 1) + i) + 99), <<>>)
    [] ColumnOf(j, c) = 2 -> StrVal(IF i = 0 THEN <<97>> ELSE FormatUint(i))
    [] OTHER -> NilVal

\* the j-th RawQueryResult of a batch, with n rows
ResultSet(j, n) ==
  [Columns |-> [c \in 1..NumCols(j) |-> ColumnNames[ColumnOf(j, c)]],
   Rows |-> [i \in 1..n |-> [c \in 1..NumCols(j) |-> Cell(j, i - 1, c)]]]

\* the []RawQueryResult whose j-th set has sizes[j] rows
Batch(sizes) == [j \in 1..Len(sizes) |-> ResultSet(j, sizes[j])]

SeqsUpTo(S, n) == UNION {[1..k -> S] : k \in 0..n}

CarriedErrors == {"remote service error"}

GoArchs == {"amd64", "arm64"}

\* destinations passed to Scan: *int, *string, *uint8 holding earlier values
\* (7, "x", 7) and a nil pointer
DestPool ==
  << Dest("int", Val("int", 7, <<>>)), Dest("string", StrVal(<<120>>)),
     Dest("nilptr", NilVal), Dest("uint8", Val("uint8", 7, <<>>)) >>

\* the destination lists passed to Scan: d destinations, d <= MaxDest, taken
\* from the pool in turn, starting anywhere
ScanDests ==
  {[i \in 1..d |-> DestPool[((p + i - 2) % Len(DestPool)) + 1]] :
     p \in 1..Len(DestPool), d \in 0..MaxDest}

Field(name, db, sql, json, k) == [Name |-> name, db |-> db, sql |-> sql, json |-> json, k |-> k]

\* struct { ID int `db:"id"`; Name string }
Person ==
  << Field(<<73, 68>>, <<105, 100>>, <<>>, <<>>, "int"),
     Field(<<78, 97, 109, 101>>, <<>>, <<>>, <<>>, "string") >>

\* struct { Label string `json:"name"`; Code uint8 `sql:"ID"`;
\*          Hidden string `db:"-" json:"note"`; Note string `sql:"note" json:"id"` }
Tagged ==
  << Field(<<76, 97, 98, 101, 108>>, <<>>, <<>>, <<110, 97, 109, 101>>, "string"),
     Field(<<67, 111, 100, 101>>, <<>>, <<73, 68>>, <<>>, "uint8"),
     Field(<<72, 105, 100, 100, 101, 110>>, <<45>>, <<>>, <<110, 111, 116, 101>>, "string"),
     Field(<<78, 111, 116, 101>>, <<>>, <<110, 111, 116, 101>>, <<105, 100>>, "string") >>

\* a value of a struct type whose fields hold earlier values (7, "x")
Filled(t) == [f \in 1..Len(t) |-> IF t[f].k = "string" THEN StrVal(<<120>>) ELSE Val(t[f].k, 7, <<>>)]

\* destinations passed to ScanStruct
StructDests ==
  {[ptr |-> "struct", t |-> Person, v |-> Filled(Person)],
   [ptr |-> "struct", t |-> Tagged, v |-> Filled(Tagged)],
   [ptr |-> "nil", t |-> <<>>, v |-> <<>>],
   [ptr |-> "other", t |-> <<>>, v |-> <<>>]}

-----------------------------------------------------------------------------
(* The state: one *Rows and one *Row, the last call with what it returned  *)
(* (last) and the calls of Next() and NextSet() counted so far (hist).     *)
(* A run holds one cursor, a *Rows or a *Row, and the other pointer is     *)
(* nil: the two share no state, so their calls are not interleaved.  The   *)
(* architecture of the build is chosen at each call that converts.         *)

Call(op, ret, col, before, after) ==
  [op |-> op, ret |-> ret, col |-> col, before |-> before, after |-> after]

NoCall == Call("none", NoErr, -1, <<>>, <<>>)

NoHist == [nexts |-> 0, trues |-> 0, lastNext |-> "none", nextSets |-> 0, setTrues |-> 0]

\* the cursors QueryRows can hand out: newRows over a batch, over a nil
\* slice, with a carried error, and the nil *Rows
RowsChoices ==
  {newRows(Batch(sizes), FALSE, NoErr) : sizes \in SeqsUpTo(RowCounts, MaxSets)}
  \cup {newRows(<<>>, TRUE, NoErr), NilRows}
  \cup {newRows(<<>>, TRUE, e) : e \in CarriedErrors}

\* the rows QueryRow can hand out: newRow over a result, over a nil result,
\* with a carried error, and the nil *Row
RowChoices ==
  {newRow(ResultSet(j, n), FALSE, NoErr) : j \in 1..3, n \in RowCounts}
  \cup {newRow(<<>>, TRUE, NoErr), NilRow}
  \cup {newRow(<<>>, TRUE, e) : e \in CarriedErrors}

Init ==
  /\ \/ rows \in RowsChoices /\ row = NilRow
     \/ row \in RowChoices /\ rows = NilRows
  /\ last = NoCall
  /\ hist = NoHist
  /\ DriverIdle

CallRowsErr ==
  /\ row.null
  /\ last' = Call("Rows.Err", RowsErr(rows), -1, <<>>, <<>>)
  /\ UNCHANGED <<rows, row, hist, driverVars>>

CallRowsNext ==
  /\ row.null
  /\ hist.nexts < MaxNextCalls
  /\ \E n \in {RowsNext(rows)} :
         /\ rows' = n.r
         /\ last' = Call("Rows.Next", n.ret, -1, <<>>, <<>>)
         /\ hist' = [hist EXCEPT !.nexts = @ + 1,
                                 !.trues = IF n.ret = "true" THEN @ + 1 ELSE @,
                                 !.lastNext = n.ret]
  /\ UNCHANGED <<row, driverVars>>

CallRowsNextSet ==
  /\ row.null
  /\ hist.nextSets < MaxNextSetCalls
  /\ \E n \in {RowsNextSet(rows)} :
         /\ rows' = n.r
         /\ last' = Call("Rows.NextSet", n.ret, -1, <<>>, <<>>)
         /\ hist' = [hist EXCEPT !.nextSets = @ + 1,
                                 !.setTrues = IF n.ret = "true" THEN @ + 1 ELSE @,
                                 !.nexts = 0, !.trues = 0, !.lastNext = "none"]
  /\ UNCHANGED <<row, driverVars>>

CallRowsScan ==
  /\ row.null
  /\ \E dest \in ScanDests, arch \in GoArchs :
       \E s \in {RowsScan(rows, dest, arch)} :
           last' = Call("Rows.Scan", s.ret, s.col, dest, s.dest)
  /\ UNCHANGED <<rows, row, hist, driverVars>>

CallRowsScanStruct ==
  /\ row.null
  /\ \E d \in StructDests, arch \in GoArchs :
       \E s \in {RowsScanStruct(rows, d, arch)} :
           /\ rows' = s.r
           /\ last' = Call("Rows.ScanStruct", s.ret, s.col, d, [d EXCEPT !.v = s.v])
  /\ UNCHANGED <<row, hist, driverVars>>

CallRowErr ==
  /\ rows.null
  /\ last' = Call("Row.Err", RowErr(row), -1, <<>>, <<>>)
  /\ UNCHANGED <<rows, row, hist, driverVars>>

CallRowScan ==
  /\ rows.null
  /\ \E dest \in ScanDests, arch \in GoArchs :
       \E s \in {RowScan(row, dest, arch)} :
           last' = Call("Row.Scan", s.ret, s.col, dest, s.dest)
  /\ UNCHANGED <<rows, row, hist, driverVars>>

CallRowScanStruct ==
  /\ rows.null
  /\ \E d \in StructDests, arch \in GoArchs :
       \E s \in {RowScanStruct(row, d, arch)} :
           /\ row' = s.r
           /\ last' = Call("Row.ScanStruct", s.ret, s.col, d, [d EXCEPT !.v = s.v])
  /\ UNCHANGED <<rows, hist, driverVars>>

Next ==
  \/ CallRowsErr
  \/ CallRowsNext
  \/ CallRowsNextSet
  \/ CallRowsScan
  \/ CallRowsScanStruct
  \/ CallRowErr
  \/ CallRowScan
  \/ CallRowScanStruct

Spec == Init /\ [][Next]_vars

-----------------------------------------------------------------------------
(* assign as a function of its arguments: the inputs are drawn at the      *)
(* start and one call applies assign to them.  Under SpecAssign last is    *)
(* [op, dest, src, arch, err, out]: the destination before the call, the   *)
(* source, the architecture, and the error and destination after it.       *)

\* the integers a source of kind k can hold, among -3, 0, 42, 128, 300
SourceInts(k) ==
  {n \in {-3, 0, 42, 128, 300} :
     /\ k \in UnsignedKinds => n >= 0
     /\ k = "int8" => n < 128
     /\ k = "uint8" => n < 256}

\* the texts "42", "-5", "0x1F", "010", "300", "3.5", "abc", "true", ""
SourceTexts ==
  {<<52, 50>>, <<45, 53>>, <<48, 120, 49, 70>>, <<48, 49, 48>>, <<51, 48, 48>>,
   <<51, 46, 53>>, <<97, 98, 99>>, <<116, 114, 117, 101>>, <<>>}

\* float64 sources 3.99, -3.99, 0.5, -0.5, 0, 3, 128, 300.5, -129
SourceFloats == {399, -399, 50, -50, 0, 300, 12800, 30050, -12900}

\* the sources: nil, integers of every kind, floats (a float32 holds 0.5,
\* -2.5 or 0 exactly), booleans, texts, a []byte, a time.Time, a struct{}
AssignSources ==
  {NilVal}
  \cup {Val(k, n, <<>>) : k \in SignedKinds \cup UnsignedKinds, n \in {-3, 0, 42, 128, 300}}
  \cup {Val("float64", h, <<>>) : h \in SourceFloats}
  \cup {Val("float32", h, <<>>) : h \in {50, -250, 0}}
  \cup {BoolVal(TRUE), BoolVal(FALSE)}
  \cup {StrVal(s) : s \in SourceTexts}
  \cup {Val("bytes", 0, <<97, 98, 99>>), TimeUnix(5), Val("struct", 0, <<>>)}

\* the value a destination of kind k holds before the call: 7, "x", true,
\* the time 7 s after the epoch
Held(k) ==
  CASE k \in {"string", "bytes"} -> Val(k, 0, <<120>>)
    [] k = "bool" -> BoolVal(TRUE)
    [] k = "time" -> TimeUnix(7)
    [] k = "float64" -> Val(k, 700, <<>>)
    [] k \in {"nilptr", "scanner"} -> NilVal
    [] OTHER -> Val(k, 7, <<>>)

SupportedKinds ==
  SignedKinds \cup UnsignedKinds \cup {"float64", "bool", "string", "bytes", "time"}

\* the destinations: a pointer to each supported kind, holding a value or
\* the zero value, a nil pointer and a sql.Scanner
AssignDests ==
  {Dest(k, Held(k)) : k \in SupportedKinds \cup {"nilptr", "scanner"}}
  \cup {Dest(k, Zero(k)) : k \in SupportedKinds}

InitAssign ==
  /\ rows = NilRows
  /\ row = NilRow
  /\ hist = NoHist
  /\ DriverIdle
  /\ last \in {[op |-> "input", dest |-> d, src |-> s, arch |-> a, err |-> "nil", out |-> d] :
                 d \in AssignDests,
                 s \in {x \in AssignSources :
                          x.k \in SignedKinds \cup UnsignedKinds => x.n \in SourceInts(x.k)},
                 a \in GoArchs}

CallAssign ==
  /\ last.op = "input"
  /\ LET a == assign(last.dest, last.src, last.arch)
     IN  last' = [last EXCEPT !.op = "assign", !.err = a.err, !.out = a.dest]
  /\ UNCHANGED <<rows, row, hist, driverVars>>

NextAssign == CallAssign

SpecAssign == InitAssign /\ [][NextAssign]_vars

-----------------------------------------------------------------------------
(* createFieldMap and scanStructWithMap as functions of their arguments:   *)
(* a struct type is drawn at the start, one call builds its field map and  *)
(* a second scans one row into a value of the type with that map.  Under   *)
(* SpecFieldMap last is [op, t, fm, cols, vals, arch, v, ret, col, out]:   *)
(* the type, its map, the columns and values of the row, the field values  *)
(* before the scan (v) and after it (out).                                 *)

MaxFields == 2

\* the fields struct types are made of:
\*   ID int `db:"id"`;  Name string;  Label string `json:"name"`;
\*   Code uint8 `sql:"ID"`;  Hidden string `db:"-" json:"note"`;
\*   Note string `sql:"note" json:"id"`;  secret string;
\*   Alt string `sql:"-" json:"name"`;  Off int `json:"-"`;
\*   Both string `db:"name" sql:"id"`
FieldPool ==
  {Field(<<73, 68>>, <<105, 100>>, <<>>, <<>>, "int"),
   Field(<<78, 97, 109, 101>>, <<>>, <<>>, <<>>, "string"),
   Field(<<76, 97, 98, 101, 108>>, <<>>, <<>>, <<110, 97, 109, 101>>, "string"),
   Field(<<67, 111, 100, 101>>, <<>>, <<73, 68>>, <<>>, "uint8"),
   Field(<<72, 105, 100, 100, 101, 110>>, <<45>>, <<>>, <<110, 111, 116, 101>>, "string"),
   Field(<<78, 111, 116, 101>>, <<>>, <<110, 111, 116, 101>>, <<105, 100>>, "string"),
   Field(<<115, 101, 99, 114, 101, 116>>, <<>>, <<>>, <<>>, "string"),
   Field(<<65, 108, 116>>, <<>>, <<45>>, <<110, 97, 109, 101>>, "string"),
   Field(<<79, 102, 102>>, <<>>, <<>>, <<45>>, "int"),
   Field(<<66, 111, 116, 104>>, <<110, 97, 109, 101>>, <<105, 100>>, <<>>, "string")}

\* the struct types of at most MaxFields fields (a struct names no field twice)
StructTypes ==
  {t \in SeqsUpTo(FieldPool, MaxFields) :
     \A f, g \in 1..Len(t) : t[f].Name = t[g].Name => f = g}

\* rows to scan, [Columns, vals]: [id, name] / [1, "Alice"];
\* [ID, Name, note] / [2, "Bob", NULL]; [other] / ["z"]; [name, secret] / [NULL, "s"]
FieldMapRows ==
  {[Columns |-> << <<105, 100>>, <<110, 97, 109, 101>> >>,
    vals |-> << Val("float64", 100, <<>>), StrVal(<<65, 108, 105, 99, 101>>) >>],
   [Columns |-> << <<73, 68>>, <<78, 97, 109, 101>>, <<110, 111, 116, 101>> >>,
    vals |-> << Val("float64", 200, <<>>), StrVal(<<66, 111, 98>>), NilVal >>],
   [Columns |-> << <<111, 116, 104, 101, 114>> >>, vals |-> << StrVal(<<122>>) >>],
   [Columns |-> << <<110, 97, 109, 101>>, <<115, 101, 99, 114, 101, 116>> >>,
    vals |-> << NilVal, StrVal(<<115>>) >>]}

InitFieldMap ==
  /\ rows = NilRows
  /\ row = NilRow
  /\ hist = NoHist
  /\ DriverIdle
  /\ last \in {[op |-> "input", t |-> t, fm |-> NilMap, cols |-> <<>>, vals |-> <<>>,
                 arch |-> "amd64", v |-> Filled(t), ret |-> NoErr, col |-> -1,
                 out |-> Filled(t)] : t \in StructTypes}

CallCreateFieldMap ==
  /\ last.op = "input"
  /\ last' = [last EXCEPT !.op = "createFieldMap", !.fm = createFieldMap(last.t)]
  /\ UNCHANGED <<rows, row, hist, driverVars>>

CallScanStructWithMap ==
  /\ last.op = "createFieldMap"
  /\ \E r \in FieldMapRows, arch \in GoArchs :
       \E s \in {scanStructWithMap(r.Columns, r.vals, last.t, last.v, last.fm, arch)} :
         last' = [last EXCEPT !.op = "scanStructWithMap", !.cols = r.Columns,
                              !.vals = r.vals, !.arch = arch, !.ret = s.ret,
                              !.col = s.col, !.out = s.v]
  /\ UNCHANGED <<rows, row, hist, driverVars>>

NextFieldMap == CallCreateFieldMap \/ CallScanStructWithMap

SpecFieldMap == InitFieldMap /\ [][NextFieldMap]_vars

-----------------------------------------------------------------------------
(* Errors (errors.go).  An error is a record: [type |-> "D1Error", Code,   *)
(* Message] for a *D1Error, [type |-> "SQLiteError", Message, Query,       *)
(* Bindings, SQLiteCode] for a *SQLiteError, and [type |-> "error", text]  *)
(* for any other error, which wraps no *D1Error.                           *)

\* the API error code of an error of the SQLite engine
CodeSQLite == 7500

D1Error(code, message) == [type |-> "D1Error", Code |-> code, Message |-> message]

OtherError(text) == [type |-> "error", text |-> text]

\* func newSQLiteError(message, query string, bindings []any, sqliteCode string)
newSQLiteError(message, query, bindings, sqliteCode) ==
  [type |-> "SQLiteError", Message |-> message, Query |-> query,
   Bindings |-> bindings, SQLiteCode |-> sqliteCode]

\* ": SQLITE_"
Marker == <<58, 32, 83, 81, 76, 73, 84, 69, 95>>

\* sep occurs in s at index i
OccursAt(s, sep, i) == i + Len(sep) - 1 <= Len(s) /\ SubSeq(s, i, i + Len(sep) - 1) = sep

\* the indexes where sep occurs in s
Occurrences(s, sep) == {i \in 1..Len(s) : OccursAt(s, sep, i)}

\* strings.SplitN(s, sep, 2) splitting at the last occurrence of sep
SplitN_AtLast(s, sep) ==
  IF Occurrences(s, sep) = {} THEN <<s>>
  ELSE LET i == CHOOSE j \in Occurrences(s, sep) : \A k \in Occurrences(s, sep) : k <= j
       IN  <<SubSeq(s, 1, i - 1), SubSeq(s, i + Len(sep), Len(s))>>

\* strings.SplitN(s, sep, 2) for a sep that is not empty: s cut at the first
\* occurrence of sep, <<s>> when there is none
SplitN(s, sep) ==
  IF Occurrences(s, sep) = {} THEN <<s>>
  ELSE LET i == CHOOSE j \in Occurrences(s, sep) : \A k \in Occurrences(s, sep) : j <= k
       IN  <<SubSeq(s, 1, i - 1), SubSeq(s, i + Len(sep), Len(s))>>

\* func convertSQLiteError(err error, query string, bindings []any) error
convertSQLiteError(err, query, bindings) ==
  IF err.type = "D1Error" /\ err.Code = CodeSQLite
  THEN LET parts == SplitN(err.Message, Marker)
       IN  newSQLiteError(parts[1], query, bindings,
                          IF Len(parts) = 2 THEN <<83, 81, 76, 73, 84, 69, 95>> \o parts[2]
                          ELSE <<83, 81, 76, 73, 84, 69, 95, 69, 82, 82, 79, 82>>)
  ELSE err

(* convertSQLiteError as a function of its arguments.  Under SpecConvert   *)
(* last is [op, err, query, bindings, out].                                *)

\* messages of the remote service: "near line X: SQLITE_CONSTRAINT",
\* "no such table", ": SQLITE_", "a: SQLITE_B: SQLITE_C", "",
\* "x: sqlite_y", "SQLITE_AUTH"
ErrorMessages ==
  {<<110, 101, 97, 114, 32, 108, 105, 110, 101, 32, 88, 58, 32, 83, 81, 76, 73, 84, 69, 95, 67, 79, 78, 83, 84, 82, 65, 73, 78, 84>>,
   <<110, 111, 32, 115, 117, 99, 104, 32, 116, 97, 98, 108, 101>>,
   <<58, 32, 83, 81, 76, 73, 84, 69, 95>>,
   <<97, 58, 32, 83, 81, 76, 73, 84, 69, 95, 66, 58, 32, 83, 81, 76, 73, 84, 69, 95, 67>>,
   <<>>,
   <<120, 58, 32, 115, 113, 108, 105, 116, 101, 95, 121>>,
   <<83, 81, 76, 73, 84, 69, 95, 65, 85, 84, 72>>}

\* the errors sendRequest returns: the first error of the API response, the
\* status and body of a response with status 500, and errors of the
\* transport and of decoding
RequestErrors ==
  {D1Error(c, m) : c \in {CodeSQLite, 7400, 500}, m \in ErrorMessages}
  \cup {OtherError("sending request"), OtherError("decoding response")}

\* statement texts "INSERT" and "SELECT"
Queries == {<<73, 78, 83, 69, 82, 84>>, <<83, 69, 76, 69, 67, 84>>}

\* bound parameters: none, and the integer 1 with the text "a"
BindingLists == {<<>>, << Val("int", 1, <<>>), StrVal(<<97>>) >>}

InitConvert ==
  /\ rows = NilRows
  /\ row = NilRow
  /\ hist = NoHist
  /\ DriverIdle
  /\ last \in {[op |-> "input", err |-> e, query |-> q, bindings |-> p, out |-> e] :
                 e \in RequestErrors, q \in Queries, p \in BindingLists}

CallConvertSQLiteError ==
  /\ last.op = "input"
  /\ last' = [last EXCEPT !.op = "convertSQLiteError",
                          !.out = convertSQLiteError(last.err, last.query, last.bindings)]
  /\ UNCHANGED <<rows, row, hist, driverVars>>

NextConvert == CallConvertSQLiteError

SpecConvert == InitConvert /\ [][NextConvert]_vars

-----------------------------------------------------------------------------
(* The Client, its Handle and the database/sql driver.  The remote service *)
(* is the environment: each request is answered by a response the action   *)
(* draws.  remote counts the requests: [lists, queries, db], db the         *)
(* database of the latest query request.  Calls are made one at a time.     *)

NilError == [type |-> "nil"]

\* var ErrNotFound, wrapped with the name that was looked up
ErrNotFound(name) == [type |-> "ErrNotFound", text |-> name]

\* driver.ErrSkip, driver.ErrBadConn, io.EOF
ErrSkip == [type |-> "driver.ErrSkip"]

ErrBadConn == [type |-> "driver.ErrBadConn"]

EOF == [type |-> "io.EOF"]

\* fmt.Errorf(prefix + ": %w", err)
Wrapped(prefix, err) == [type |-> "error", text |-> prefix, wraps |-> err]

(* sync.RWMutex as [readers, writer].  Unlock of a mutex that is not locked *)
(* for writing, and RUnlock of one that is not locked for reading, end the  *)
(* process with a fatal error.                                              *)

NewMutex == [readers |-> 0, writer |-> FALSE]

Lock(m) == [m EXCEPT !.writer = TRUE]

RLock(m) == [m EXCEPT !.readers = @ + 1]

Unlock(m) ==
  IF m.writer THEN [m |-> [m EXCEPT !.writer = FALSE], fatal |-> FALSE]
  ELSE [m |-> m, fatal |-> TRUE]

RUnlock(m) ==
  IF m.readers > 0 THEN [m |-> [m EXCEPT !.readers = @ - 1], fatal |-> FALSE]
  ELSE [m |-> m, fatal |-> TRUE]

\* func NewClient(accountID string, apiToken string, options ...ClientOption) *Client
NewClient == [null |-> FALSE, rowsRead |-> 0, rowsWritten |-> 0, mux |-> NewMutex]

\* func (c *Client) RowsRead() int: [client, ret, fatal]
ClientRowsRead(c) ==
  LET u == Unlock(RLock(c.mux))
  IN  [client |-> [c EXCEPT !.mux = u.m], ret |-> c.rowsRead, fatal |-> u.fatal]

\* func (c *Client) RowsWritten() int: [client, ret, fatal]
ClientRowsWritten(c) ==
  LET u == Unlock(RLock(c.mux))
  IN  [client |-> [c EXCEPT !.mux = u.m], ret |-> c.rowsWritten, fatal |-> u.fatal]

\* func (c *Client) ResetCounters(): [client, fatal]
ClientResetCounters(c) ==
  LET u == Unlock(Lock(c.mux))
  IN  [client |-> [c EXCEPT !.mux = u.m, !.rowsRead = 0, !.rowsWritten = 0],
       fatal |-> u.fatal]

\* QueryMeta, of its fields those the client reads
Meta(lastRowID, rowsRead, rowsWritten) ==
  [LastRowID |-> lastRowID, RowsRead |-> rowsRead, RowsWritten |-> rowsWritten]

\* type QueryResult struct: a row of Results is a map from column to value
QueryResult(meta, results) == [Meta |-> meta, Results |-> results]

\* a response of the remote service: an error, or the decoded result
Failure(err) == [err |-> err, result |-> <<>>]

Success(result) == [err |-> NilError, result |-> result]

\* the end of sendRequest for a response and the target v of the decoding:
\* the counters are updated when v is a *QueryResult.  [client, err]
sendRequest(c, vType, resp) ==
  IF resp.err # NilError THEN [client |-> c, err |-> resp.err]
  ELSE IF vType = "*QueryResult"
  THEN LET u == Unlock(Lock(c.mux))
       IN  [client |-> [c EXCEPT !.mux = u.m,
                                 !.rowsRead = @ + resp.result.Meta.RowsRead,
                                 !.rowsWritten = @ + resp.result.Meta.RowsWritten],
            err |-> NilError]
  ELSE [client |-> c, err |-> NilError]

\* func convertTypes(input []any) []any: a bool becomes 1 or 0 and a
\* time.Time its Unix seconds, 0 for the zero Time
convertTypes(input) ==
  [i \in 1..Len(input) |->
     IF input[i].k = "bool" THEN Val("int", input[i].n, <<>>)
     ELSE IF input[i].k = "time"
     THEN Val("int", IF input[i].s = <<>> THEN 0 ELSE input[i].n, <<>>)
     ELSE input[i]]

\* func (c *Client) Query(ctx, databaseID, sql string, params ...any):
\* [client, result, err, panic]; &result[0] panics on an empty result
ClientQuery(c, databaseID, sql, params, resp) ==
  LET s == sendRequest(c, "*[]QueryResult", resp)
  IN  IF s.err # NilError
      THEN [client |-> s.client, result |-> Nil, panic |-> FALSE,
            err |-> convertSQLiteError(s.err, sql, convertTypes(params))]
      ELSE IF Len(resp.result) = 0
      THEN [client |-> s.client, result |-> Nil, panic |-> TRUE, err |-> NilError]
      ELSE [client |-> s.client, result |-> resp.result[1], panic |-> FALSE,
            err |-> NilError]

\* regexUUID: ^[0-9a-fA-F]{8}-([0-9a-fA-F]{4}-){3}[0-9a-fA-F]{12}$
IsHex(c) == (c >= 48 /\ c <= 57) \/ (c >= 65 /\ c <= 70) \/ (c >= 97 /\ c <= 102)

UUIDLen == 36

IsUUID(s) ==
  /\ Len(s) = UUIDLen
  /\ \A i \in 1..Len(s) : IF i \in {9, 14, 19, 24} THEN s[i] = 45 ELSE IsHex(s[i])

\* a nil *Handle's fields are never read; a Handle is [null, dbID, rowsRead,
\* rowsWritten, lastRowID, lastMeta, mux] and its client is the Client
NewHandle(dbid) ==
  [null |-> FALSE, dbID |-> dbid, rowsRead |-> 0, rowsWritten |-> 0, lastRowID |-> 0,
   lastMeta |-> Meta(0, 0, 0), mux |-> NewMutex]

\* the loop of FindDatabase over the listed databases, from index i
RECURSIVE firstNamed(_, _, _)
firstNamed(dbs, name, i) ==
  IF i > Len(dbs) THEN [found |-> FALSE, UUID |-> <<>>]
  ELSE IF dbs[i].Name = name THEN [found |-> TRUE, UUID |-> dbs[i].UUID]
  ELSE firstNamed(dbs, name, i + 1)

\* a FindDatabase that takes the first database of the filtered list
FindDatabase_FirstListed(dbNameOrUUID, listResp) ==
  IF IsUUID(dbNameOrUUID)
  THEN [dbid |-> dbNameOrUUID, err |-> NilError, listed |-> FALSE]
  ELSE IF listResp.err # NilError
  THEN [dbid |-> <<>>, err |-> Wrapped("listing databases", listResp.err), listed |-> TRUE]
  ELSE IF Len(listResp.result) > 0
  THEN [dbid |-> listResp.result[1].UUID, err |-> NilError, listed |-> TRUE]
  ELSE [dbid |-> <<>>, err |-> ErrNotFound(dbNameOrUUID), listed |-> TRUE]

\* func (c *Client) FindDatabase(ctx, dbNameOrUUID string) (string, error):
\* [dbid, err, listed]; listed tells that ListDatabases was called
FindDatabase(dbNameOrUUID, listResp) ==
  IF IsUUID(dbNameOrUUID)
  THEN [dbid |-> dbNameOrUUID, err |-> NilError, listed |-> FALSE]
  ELSE IF listResp.err # NilError
  THEN [dbid |-> <<>>, err |-> Wrapped("listing databases", listResp.err), listed |-> TRUE]
  ELSE IF firstNamed(listResp.result, dbNameOrUUID, 1).found
  THEN [dbid |-> firstNamed(listResp.result, dbNameOrUUID, 1).UUID, err |-> NilError,
        listed |-> TRUE]
  ELSE [dbid |-> <<>>, err |-> ErrNotFound(dbNameOrUUID), listed |-> TRUE]

\* func (c *Client) GetHandle(ctx, dbNameOrUUID string) (*Handle, error)
GetHandle(dbNameOrUUID, listResp) ==
  LET f == FindDatabase(dbNameOrUUID, listResp)
  IN  IF f.err # NilError THEN [handle |-> Nil, err |-> f.err, listed |-> f.listed]
      ELSE [handle |-> NewHandle(f.dbid), err |-> NilError, listed |-> f.listed]

\* func (c *connector) Connect(ctx context.Context) (driver.Conn, error):
\* [conn, err, listed]
connectorConnect(dbNameOrUUID, listResp) ==
  LET g == GetHandle(dbNameOrUUID, listResp)
  IN  IF g.err # NilError THEN [conn |-> Nil, err |-> g.err, listed |-> g.listed]
      ELSE [conn |-> [null |-> FALSE, handle |-> g.handle], err |-> NilError,
            listed |-> g.listed]

\* a Handle.Query that forgets the last row id when the query fails
HandleQuery_ClearsOnError(h, c, sql, params, resp) ==
  LET q == ClientQuery(c, h.dbID, sql, params, resp)
  IN  IF q.panic \/ q.err # NilError
      THEN [handle |-> [h EXCEPT !.lastRowID = 0], client |-> q.client, results |-> <<>>,
            err |-> q.err, panic |-> q.panic]
      ELSE [handle |-> [h EXCEPT !.mux = Unlock(Lock(h.mux)).m,
                                 !.rowsRead = @ + q.result.Meta.RowsRead,
                                 !.rowsWritten = @ + q.result.Meta.RowsWritten,
                                 !.lastRowID = q.result.Meta.LastRowID,
                                 !.lastMeta = q.result.Meta],
            client |-> q.client, results |-> q.result.Results, err |-> NilError,
            panic |-> FALSE]

\* func (h *Handle) Query(ctx, sql string, params ...any) ([]map[string]any, error):
\* [handle, client, results, err, panic]
HandleQuery(h, c, sql, params, resp) ==
  LET q == ClientQuery(c, h.dbID, sql, params, resp)
  IN  IF q.panic \/ q.err # NilError
      THEN [handle |-> h, client |-> q.client, results |-> <<>>, err |-> q.err,
            panic |-> q.panic]
      ELSE [handle |-> [h EXCEPT !.mux = Unlock(Lock(h.mux)).m,
                                 !.rowsRead = @ + q.result.Meta.RowsRead,
                                 !.rowsWritten = @ + q.result.Meta.RowsWritten,
                                 !.lastRowID = q.result.Meta.LastRowID,
                                 !.lastMeta = q.result.Meta],
            client |-> q.client, results |-> q.result.Results, err |-> NilError,
            panic |-> FALSE]

\* func (h *Handle) LastRowID() int and func (h *Handle) LastMeta() QueryMeta
HandleLastRowID(h) == h.lastRowID

HandleLastMeta(h) == h.lastMeta

\* func (c *conn) IsValid() bool
connIsValid(cn) == ~cn.handle.null

\* func namedValuesToAny(nvs []driver.NamedValue) []any
namedValuesToAny(nvs) == [i \in 1..Len(nvs) |-> nvs[i].Value]

\* func valuesToNamedValues(vals []driver.Value) []driver.NamedValue
valuesToNamedValues(vals) == [i \in 1..Len(vals) |-> [Ordinal |-> i, Value |-> vals[i]]]

\* func (c *conn) Begin() (driver.Tx, error): [conn, tx, err, sent]; sent
\* tells that a request was made
connBegin(cn) == [conn |-> cn, tx |-> Nil, err |-> ErrSkip, sent |-> FALSE]

\* a BeginTx that declines read-only transactions only
connBeginTx_DeclinesReadOnly(cn, opts) ==
  IF opts.ReadOnly THEN [conn |-> cn, tx |-> Nil, err |-> ErrSkip, sent |-> FALSE]
  ELSE [conn |-> cn, tx |-> [null |-> FALSE], err |-> NilError, sent |-> FALSE]

\* func (c *conn) BeginTx(ctx, opts driver.TxOptions) (driver.Tx, error):
\* [conn, tx, err, sent]
connBeginTx(cn, opts) == [conn |-> cn, tx |-> Nil, err |-> ErrSkip, sent |-> FALSE]

\* func (c *conn) ExecContext(ctx, query string, args []driver.NamedValue):
\* [conn, client, res, err, panic, sent]; sent tells that a request was made
connExecContext(cn, c, query, args, resp) ==
  IF ~connIsValid(cn)
  THEN [conn |-> cn, client |-> c, res |-> Nil, err |-> ErrBadConn, panic |-> FALSE,
        sent |-> FALSE]
  ELSE LET q == HandleQuery(cn.handle, c, query, namedValuesToAny(args), resp)
           after == [cn EXCEPT !.handle = q.handle]
       IN  IF q.panic \/ q.err # NilError
           THEN [conn |-> after, client |-> q.client, res |-> Nil, err |-> q.err,
                 panic |-> q.panic, sent |-> TRUE]
           ELSE [conn |-> after, client |-> q.client,
                 res |-> [null |-> FALSE,
                          rowsAffected |-> HandleLastMeta(q.handle).RowsWritten,
                          lastInsertID |-> HandleLastRowID(q.handle)],
                 err |-> NilError, panic |-> FALSE, sent |-> TRUE]

\* the orders in which a range over the keys of a map can deliver them
KeyOrders(m) ==
  {o \in [1..Cardinality(DOMAIN m) -> DOMAIN m] :
     \A i, j \in DOMAIN o : o[i] = o[j] => i = j}

\* func (c *conn) QueryContext(ctx, query string, args []driver.NamedValue):
\* [conn, client, rows, err, panic, sent]; result[0] panics when there is no
\* row, and order is the order in which the range delivers the keys of the
\* first row
connQueryContext(cn, c, query, args, resp, order) ==
  IF ~connIsValid(cn)
  THEN [conn |-> cn, client |-> c, rows |-> Nil, err |-> ErrBadConn, panic |-> FALSE,
        sent |-> FALSE]
  ELSE LET q == HandleQuery(cn.handle, c, query, namedValuesToAny(args), resp)
           after == [cn EXCEPT !.handle = q.handle]
       IN  IF q.panic \/ q.err # NilError
           THEN [conn |-> after, client |-> q.client, rows |-> Nil, err |-> q.err,
                 panic |-> q.panic, sent |-> TRUE]
           ELSE IF Len(q.results) = 0
           THEN [conn |-> after, client |-> q.client, rows |-> Nil, err |-> NilError,
                 panic |-> TRUE, sent |-> TRUE]
           ELSE [conn |-> after, client |-> q.client,
                 rows |-> [null |-> FALSE, columns |-> order, rows |-> q.results,
                           current |-> 0],
                 err |-> NilError, panic |-> FALSE, sent |-> TRUE]

\* func (c *conn) PrepareContext(ctx, query string) (driver.Stmt, error)
connPrepareContext(query) == [null |-> FALSE, query |-> query]

\* row[col] of a map[string]any: nil for a missing key
MapIndex(m, key) == IF key \in DOMAIN m THEN m[key] ELSE NilVal

\* rows.Next delivering the columns in reverse
rowsNext_Reversed(r, dest) ==
  IF r.current >= Len(r.rows) THEN [rows |-> r, dest |-> dest, err |-> EOF, panic |-> FALSE]
  ELSE IF Len(dest) < Len(r.columns)
  THEN [rows |-> r, dest |-> dest, err |-> NilError, panic |-> TRUE]
  ELSE [rows |-> [r EXCEPT !.current = @ + 1],
        dest |-> [i \in 1..Len(dest) |->
                    IF i <= Len(r.columns)
                    THEN MapIndex(r.rows[r.current + 1], r.columns[Len(r.columns) + 1 - i])
                    ELSE dest[i]],
        err |-> NilError, panic |-> FALSE]

\* func (r *rows) Next(dest []driver.Value) error: [rows, dest, err, panic];
\* dest[i] panics when dest is shorter than the column list
rowsNext(r, dest) ==
  IF r.current >= Len(r.rows) THEN [rows |-> r, dest |-> dest, err |-> EOF, panic |-> FALSE]
  ELSE IF Len(dest) < Len(r.columns)
  THEN [rows |-> r, dest |-> dest, err |-> NilError, panic |-> TRUE]
  ELSE [rows |-> [r EXCEPT !.current = @ + 1],
        dest |-> [i \in 1..Len(dest) |->
                    IF i <= Len(r.columns)
                    THEN MapIndex(r.rows[r.current + 1], r.columns[i])
                    ELSE dest[i]],
        err |-> NilError, panic |-> FALSE]

-----------------------------------------------------------------------------
(* The other operations of a Handle: raw queries handed out as cursors,    *)
(* Execute, Ping, the counters, and Import.                                *)

\* a response of the remote service to a raw query: an error, or the
\* decoded []RawQueryResult (result) with the Meta of each (metas)
RawFailure(err) == [err |-> err, result |-> <<>>, metas |-> <<>>]

RawSuccess(result, metas) == [err |-> NilError, result |-> result, metas |-> metas]

\* the cursors hold an error as its text: Error() of a SQLiteError, of a
\* D1Error and of any other error
CarriedError(err) ==
  IF err = NilError THEN NoErr
  ELSE IF err.type = "SQLiteError" THEN "SQLite error"
  ELSE IF err.type = "D1Error" THEN "D1 API error"
  ELSE err.text

\* func (c *Client) RawQuery(ctx, databaseID, sql string, params ...any)
\* ([]RawQueryResult, error): [client, result, resultNil, err]
ClientRawQuery(c, databaseID, sql, params, resp) ==
  LET s == sendRequest(c, "*[]RawQueryResult", resp)
  IN  IF s.err # NilError
      THEN [client |-> s.client, result |-> <<>>, resultNil |-> TRUE,
            err |-> convertSQLiteError(s.err, sql, convertTypes(params))]
      ELSE [client |-> s.client, result |-> resp.result, resultNil |-> FALSE,
            err |-> NilError]

\* func (h *Handle) QueryRow(ctx, sql string, params ...any) *Row:
\* [row, client, panic]; &result[0] is evaluated before newRow is called and
\* panics when result has no element, as it has after an error
HandleQueryRow(h, c, sql, params, resp) ==
  LET q == ClientRawQuery(c, h.dbID, sql, params, resp)
  IN  IF Len(q.result) = 0
      THEN [row |-> NilRow, client |-> q.client, panic |-> TRUE]
      ELSE [row |-> newRow(q.result[1], FALSE, CarriedError(q.err)), client |-> q.client,
            panic |-> FALSE]

\* func (h *Handle) QueryRows(ctx, sql string, params ...any) *Rows:
\* [rows, client, panic]
HandleQueryRows(h, c, sql, params, resp) ==
  LET q == ClientRawQuery(c, h.dbID, sql, params, resp)
  IN  [rows |-> newRows(q.result, q.resultNil, CarriedError(q.err)), client |-> q.client,
       panic |-> FALSE]

\* func (h *Handle) Execute(ctx, sql string, params ...any) error:
\* [handle, client, err, panic]
HandleExecute(h, c, sql, params, resp) ==
  LET q == ClientQuery(c, h.dbID, sql, params, resp)
  IN  [handle |-> h, client |-> q.client, err |-> q.err, panic |-> q.panic]

\* "SELECT 1"
PingQuery == <<83, 69, 76, 69, 67, 84, 32, 49>>

\* func (h *Handle) Ping(ctx context.Context) error: [handle, client, err, panic]
HandlePing(h, c, resp) ==
  LET q == HandleQuery(h, c, PingQuery, <<>>, resp)
  IN  [handle |-> q.handle, client |-> q.client, err |-> q.err, panic |-> q.panic]

\* func (c *conn) Ping(ctx context.Context) error: [conn, client, err, panic]
connPing(cn, c, resp) ==
  LET q == HandlePing(cn.handle, c, resp)
  IN  [conn |-> [cn EXCEPT !.handle = q.handle], client |-> q.client, err |-> q.err,
       panic |-> q.panic]

\* func (h *Handle) RowsRead() int: [handle, ret, fatal]
HandleRowsRead(h) ==
  LET u == Unlock(RLock(h.mux))
  IN  [handle |-> [h EXCEPT !.mux = u.m], ret |-> h.rowsRead, fatal |-> u.fatal]

\* func (h *Handle) RowsWritten() int: [handle, ret, fatal]
HandleRowsWritten(h) ==
  LET u == Unlock(RLock(h.mux))
  IN  [handle |-> [h EXCEPT !.mux = u.m], ret |-> h.rowsWritten, fatal |-> u.fatal]

(* Client.Import as a function of the client and of what the file system   *)
(* and the remote service answer, in the order Import asks: s is [md5,      *)
(* init, upload, ingest, polls], md5 and upload errors (nil for none), init *)
(* and ingest responses and polls the responses to the poll requests.  An   *)
(* import response is [err, UploadURL, Status, Meta].  The outcome is       *)
(* [client, result, err, trace], trace the requests made in their order.    *)

ImportFailure(err) ==
  [err |-> err, UploadURL |-> "", Status |-> "", Meta |-> Meta(0, 0, 0)]

ImportResponse(uploadURL, status, meta) ==
  [err |-> NilError, UploadURL |-> uploadURL, Status |-> status, Meta |-> meta]

\* func (c *Client) pollImportStatus(ctx, path string, initialResp
\* *importResponse): [resp, err, trace], from the i-th poll response on; a
\* failed request ends it as an exhausted script does
RECURSIVE pollImportStatus(_, _, _, _)
pollImportStatus(resp, polls, i, trace) ==
  IF resp.Status = "active"
  THEN IF i > Len(polls)
       THEN [resp |-> resp, err |-> OtherError("no response"), trace |-> Append(trace, "poll")]
       ELSE IF polls[i].err # NilError
       THEN [resp |-> resp, err |-> Wrapped("polling import", polls[i].err),
             trace |-> Append(trace, "poll")]
       ELSE pollImportStatus(polls[i], polls, i + 1, Append(trace, "poll"))
  ELSE IF resp.Status = "complete" THEN [resp |-> resp, err |-> NilError, trace |-> trace]
  ELSE IF resp.Status = "error"
  THEN [resp |-> resp, err |-> OtherError("import failed"), trace |-> trace]
  ELSE [resp |-> resp, err |-> OtherError("unknown status"), trace |-> trace]

\* the end of Import: the counters and the result after the polling
importFinish(c, p) ==
  IF p.err # NilError
  THEN [client |-> c, result |-> Nil, err |-> p.err, trace |-> p.trace]
  ELSE [client |-> [c EXCEPT !.mux = Unlock(Lock(c.mux)).m,
                             !.rowsRead = @ + p.resp.Meta.RowsRead,
                             !.rowsWritten = @ + p.resp.Meta.RowsWritten],
        result |-> [null |-> FALSE, RowsRead |-> p.resp.Meta.RowsRead,
                    RowsWritten |-> p.resp.Meta.RowsWritten],
        err |-> NilError, trace |-> p.trace]

\* an Import that starts the ingestion before it uploads the file
ClientImport_IngestsFirst(c, s) ==
  IF s.md5 # NilError
  THEN [client |-> c, result |-> Nil, err |-> Wrapped("failed to calculate MD5", s.md5),
        trace |-> <<>>]
  ELSE IF s.init.err # NilError
  THEN [client |-> c, result |-> Nil, trace |-> <<"init">>,
        err |-> Wrapped("failed to initialize import", Wrapped("initiating import", s.init.err))]
  ELSE IF s.init.UploadURL = ""
  THEN importFinish(c, pollImportStatus(s.init, s.polls, 1, <<"init">>))
  ELSE IF s.ingest.err # NilError
  THEN [client |-> c, result |-> Nil, trace |-> <<"init", "ingest">>,
        err |-> Wrapped("failed to start ingestion", Wrapped("ingesting import", s.ingest.err))]
  ELSE IF s.upload # NilError
  THEN [client |-> c, result |-> Nil, trace |-> <<"init", "ingest", "upload">>,
        err |-> Wrapped("failed to upload file to R2", s.upload)]
  ELSE importFinish(c, pollImportStatus(s.ingest, s.polls, 1, <<"init", "ingest", "upload">>))

\* func (c *Client) Import(ctx, databaseID, sqlFilePath string)
\* (*ImportResult, error)
ClientImport(c, s) ==
  IF s.md5 # NilError
  THEN [client |-> c, result |-> Nil, err |-> Wrapped("failed to calculate MD5", s.md5),
        trace |-> <<>>]
  ELSE IF s.init.err # NilError
  THEN [client |-> c, result |-> Nil, trace |-> <<"init">>,
        err |-> Wrapped("failed to initialize import", Wrapped("initiating import", s.init.err))]
  ELSE IF s.init.UploadURL = ""
  THEN importFinish(c, pollImportStatus(s.init, s.polls, 1, <<"init">>))
  ELSE IF s.upload # NilError
  THEN [client |-> c, result |-> Nil, trace |-> <<"init", "upload">>,
        err |-> Wrapped("failed to upload file to R2", s.upload)]
  ELSE IF s.ingest.err # NilError
  THEN [client |-> c, result |-> Nil, trace |-> <<"init", "upload", "ingest">>,
        err |-> Wrapped("failed to start ingestion", Wrapped("ingesting import", s.ingest.err))]
  ELSE importFinish(c, pollImportStatus(s.ingest, s.polls, 1, <<"init", "upload", "ingest">>))

\* func (h *Handle) Import(ctx, sqlFilePath string) (*ImportResult, error):
\* [handle, client, result, err, trace]
HandleImport(h, c, s) ==
  LET r == ClientImport(c, s)
  IN  IF r.err # NilError
      THEN [handle |-> h, client |-> r.client, result |-> Nil, err |-> r.err,
            trace |-> r.trace]
      ELSE [handle |-> [h EXCEPT !.mux = Unlock(Lock(h.mux)).m,
                                 !.rowsRead = @ + r.result.RowsRead,
                                 !.rowsWritten = @ + r.result.RowsWritten],
            client |-> r.client, result |-> r.result, err |-> NilError, trace |-> r.trace]

-----------------------------------------------------------------------------
(* The driver as a state machine.  conn is the connection Connect made    *)
(* (its handle inside), stmt a prepared statement, cur the driver cursor   *)
(* of the latest query.  last is the latest call: [op, outcome, err, res,  *)
(* resp, dest, before]; outcome is "ok", "panic" or "fatal", resp the      *)
(* response of the remote service and before the objects as they were      *)
(* before the call.  hist is [target, connects, sumRead, sumWritten]: the  *)
(* target of Connect and the sums of the metadata of the successful        *)
(* Client.Query calls since the client was made or its counters reset.     *)

MaxCalls == 2

\* identifiers of databases, and a name of their length that is none
UUID1 == <<48, 48, 48, 48, 48, 48, 48, 48, 45, 48, 48, 48, 48, 45, 52, 48, 48, 48, 45, 56, 48, 48, 48, 45, 48, 48, 48, 48, 48, 48, 48, 48, 48, 48, 48, 97>>

UUID2 == <<49, 49, 49, 49, 49, 49, 49, 49, 45, 50, 50, 50, 50, 45, 52, 51, 51, 51, 45, 56, 52, 52, 52, 45, 53, 53, 53, 53, 53, 53, 53, 53, 53, 53, 66, 102>>

UUID3 == <<57, 57, 57, 57, 57, 57, 57, 57, 45, 48, 48, 48, 48, 45, 52, 48, 48, 48, 45, 56, 48, 48, 48, 45, 48, 48, 48, 48, 48, 48, 48, 48, 48, 48, 48, 99>>

LongName == <<103, 48, 48, 48, 48, 48, 48, 48, 45, 48, 48, 48, 48, 45, 52, 48, 48, 48, 45, 56, 48, 48, 48, 45, 48, 48, 48, 48, 48, 48, 48, 48, 48, 48, 48, 97>>

\* the targets of a DSN: an identifier and the names "prod", "Prod",
\* "prod2" and "g0000000-..."
Targets == {UUID1, <<112, 114, 111, 100>>, <<80, 114, 111, 100>>, <<112, 114, 111, 100, 50>>, LongName}

\* type DatabaseDetails struct, of its fields Name and UUID
Database(name, uuid) == [Name |-> name, UUID |-> uuid]

\* the answers to ListDatabases(name): a failed request, no database,
\* [prod2, prod], [PROD], [prod], [g0000000-...]
ListResponses ==
  {Failure(OtherError("sending request")),
   Success(<<>>),
   Success(<< Database(<<112, 114, 111, 100, 50>>, UUID2), Database(<<112, 114, 111, 100>>, UUID1) >>),
   Success(<< Database(<<80, 82, 79, 68>>, UUID3) >>),
   Success(<< Database(<<112, 114, 111, 100>>, UUID1) >>),
   Success(<< Database(LongName, UUID3) >>)}

\* rows {id: 1, name: "a"} and {id: 2, name: "b"}
RowA == (<<105, 100>> :> Val("float64", 100, <<>>)) @@ (<<110, 97, 109, 101>> :> StrVal(<<97>>))

RowB == (<<105, 100>> :> Val("float64", 200, <<>>)) @@ (<<110, 97, 109, 101>> :> StrVal(<<98>>))

\* the answers to a query: a SELECT of two rows, an INSERT (row id 5, one
\* row written), a batch of two INSERTs (row ids 5 and 6), an error of the
\* SQLite engine and a failed request
QueryResponses ==
  {Success(<< QueryResult(Meta(0, 2, 0), <<RowA, RowB>>) >>),
   Success(<< QueryResult(Meta(5, 0, 1), <<>>) >>),
   Success(<< QueryResult(Meta(5, 0, 1), <<>>), QueryResult(Meta(6, 1, 2), <<>>) >>),
   Failure(D1Error(CodeSQLite, <<110, 101, 97, 114, 32, 108, 105, 110, 101, 32, 88, 58, 32, 83, 81, 76, 73, 84, 69, 95, 67, 79, 78, 83, 84, 82, 65, 73, 78, 84>>)),
   Failure(OtherError("sending request"))}

\* statements with their arguments: INSERT with 1 and "a", SELECT with none
Statements ==
  {[query |-> <<73, 78, 83, 69, 82, 84>>, args |-> valuesToNamedValues(<< Val("int", 1, <<>>), StrVal(<<97>>) >>)],
   [query |-> <<83, 69, 76, 69, 67, 84>>, args |-> <<>>]}

\* driver.TxOptions: the default and a read-only serializable transaction
TxOptions == {[Isolation |-> 0, ReadOnly |-> FALSE], [Isolation |-> 6, ReadOnly |-> TRUE]}

NoResponse == Success(<<>>)

\* the array database/sql passes to rows.Next: as many values as Columns()
\* has, and the same array again at the next call
DestArray ==
  IF cur.null THEN <<>>
  ELSE IF last.op = "rows.Next" THEN last.dest
  ELSE [i \in 1..Len(cur.columns) |-> StrVal(<<120>>)]

Snapshot ==
  [conn |-> conn, client |-> client, remote |-> remote, stmt |-> stmt, cur |-> cur,
   dest |-> DestArray]

DriverCall(op, outcome, err, res, resp, dest) ==
  [op |-> op, outcome |-> outcome, err |-> err, res |-> res, resp |-> resp,
   dest |-> dest, before |-> Snapshot]

NoDriverHist == [target |-> <<>>, connects |-> 0, sumRead |-> 0, sumWritten |-> 0]

\* the process runs: no call has panicked or ended it with a fatal error
Running == last.outcome = "ok"

Outcome(panic) == IF panic THEN "panic" ELSE "ok"

\* the request counters after a query request for database db
Queried(db) == [remote EXCEPT !.queries = @ + 1, !.db = db]

\* hist after a Client.Query call that returned q
Summed(q) ==
  IF q.panic \/ q.err # NilError THEN hist
  ELSE [hist EXCEPT !.sumRead = @ + q.result.Meta.RowsRead,
                    !.sumWritten = @ + q.result.Meta.RowsWritten]

InitDriver ==
  /\ rows = NilRows
  /\ row = NilRow
  /\ DriverIdle
  /\ hist = NoDriverHist
  /\ last = [op |-> "none", outcome |-> "ok", err |-> NilError, res |-> Nil,
             resp |-> NoResponse, dest |-> <<>>,
             before |-> [conn |-> Nil, client |-> Nil,
                         remote |-> [lists |-> 0, queries |-> 0, db |-> <<>>],
                         stmt |-> Nil, cur |-> Nil, dest |-> <<>>]]

CallNewClient ==
  /\ Running
  /\ client.null
  /\ client' = NewClient
  /\ last' = DriverCall("NewClient", "ok", NilError, Nil, NoResponse, <<>>)
  /\ UNCHANGED <<cursorVars, hist, remote, conn, stmt, cur>>

\* the driver makes its client with NewClient, or its clientFactory hands
\* out the one there is
CallConnect ==
  /\ Running
  /\ conn.null
  /\ hist.connects = 0
  /\ \E target \in Targets, listResp \in ListResponses :
       \E c \in {connectorConnect(target, listResp)} :
         /\ conn' = c.conn
         /\ client' = IF client.null THEN NewClient ELSE client
         /\ remote' = [remote EXCEPT !.lists = IF c.listed THEN @ + 1 ELSE @]
         /\ hist' = [hist EXCEPT !.target = target, !.connects = @ + 1]
         /\ last' = DriverCall("connector.Connect", "ok", c.err, Nil,
                               IF c.listed THEN listResp ELSE NoResponse, <<>>)
  /\ UNCHANGED <<cursorVars, stmt, cur>>

CallBegin ==
  /\ Running
  /\ ~conn.null
  /\ \E b \in {connBegin(conn)} :
       /\ conn' = b.conn
       /\ remote' = IF b.sent THEN Queried(conn.handle.dbID) ELSE remote
       /\ last' = DriverCall("conn.Begin", "ok", b.err, b.tx, NoResponse, <<>>)
  /\ UNCHANGED <<cursorVars, hist, client, stmt, cur>>

CallBeginTx ==
  /\ Running
  /\ ~conn.null
  /\ \E opts \in TxOptions :
       \E b \in {connBeginTx(conn, opts)} :
         /\ conn' = b.conn
         /\ remote' = IF b.sent THEN Queried(conn.handle.dbID) ELSE remote
         /\ last' = DriverCall("conn.BeginTx", "ok", b.err, b.tx, NoResponse, <<>>)
  /\ UNCHANGED <<cursorVars, hist, client, stmt, cur>>

\* the effect of ExecContext(query, args) answered by resp, called as op
Exec(op, query, args, resp) ==
  \E e \in {connExecContext(conn, client, query, args, resp)} :
    /\ conn' = e.conn
    /\ client' = e.client
    /\ remote' = IF e.sent THEN Queried(conn.handle.dbID) ELSE remote
    /\ hist' = Summed(ClientQuery(client, conn.handle.dbID, query,
                                   namedValuesToAny(args), resp))
    /\ last' = DriverCall(op, Outcome(e.panic), e.err, e.res, resp, <<>>)
    /\ UNCHANGED <<cursorVars, stmt, cur>>

\* the effect of QueryContext(query, args) answered by resp, called as op
Query(op, query, args, resp) ==
  \E order \in (IF resp.err = NilError /\ Len(resp.result) > 0
                    /\ Len(resp.result[1].Results) > 0
                 THEN KeyOrders(resp.result[1].Results[1]) ELSE {<<>>}) :
    \E e \in {connQueryContext(conn, client, query, args, resp, order)} :
      /\ conn' = e.conn
      /\ client' = e.client
      /\ remote' = IF e.sent THEN Queried(conn.handle.dbID) ELSE remote
      /\ hist' = Summed(ClientQuery(client, conn.handle.dbID, query,
                                     namedValuesToAny(args), resp))
      /\ cur' = IF e.rows.null THEN cur ELSE e.rows
      /\ last' = DriverCall(op, Outcome(e.panic), e.err, e.rows, resp, <<>>)
      /\ UNCHANGED <<cursorVars, stmt>>

CallExecContext ==
  /\ Running
  /\ ~conn.null
  /\ remote.queries < MaxCalls
  /\ \E s \in Statements, resp \in QueryResponses :
       Exec("conn.ExecContext", s.query, s.args, resp)

CallQueryContext ==
  /\ Running
  /\ ~conn.null
  /\ remote.queries < MaxCalls
  /\ \E s \in Statements, resp \in QueryResponses :
       Query("conn.QueryContext", s.query, s.args, resp)

CallPrepareContext ==
  /\ Running
  /\ ~conn.null
  /\ stmt.null
  /\ \E s \in Statements :
       /\ stmt' = connPrepareContext(s.query)
       /\ last' = DriverCall("conn.PrepareContext", "ok", NilError, Nil, NoResponse, <<>>)
  /\ UNCHANGED <<cursorVars, hist, remote, client, conn, cur>>

\* func (s *stmt) ExecContext(ctx, args []driver.NamedValue)
CallStmtExecContext ==
  /\ Running
  /\ ~stmt.null
  /\ remote.queries < MaxCalls
  /\ \E s \in Statements, resp \in QueryResponses :
       Exec("stmt.ExecContext", stmt.query, s.args, resp)

\* func (s *stmt) QueryContext(ctx, args []driver.NamedValue)
CallStmtQueryContext ==
  /\ Running
  /\ ~stmt.null
  /\ remote.queries < MaxCalls
  /\ \E s \in Statements, resp \in QueryResponses :
       Query("stmt.QueryContext", stmt.query, s.args, resp)

CallDriverRowsNext ==
  /\ Running
  /\ ~cur.null
  /\ \E n \in {rowsNext(cur, DestArray)} :
       /\ cur' = n.rows
       /\ last' = DriverCall("rows.Next", Outcome(n.panic), n.err, Nil, NoResponse, n.dest)
  /\ UNCHANGED <<cursorVars, hist, remote, client, conn, stmt>>

CallClientQuery ==
  /\ Running
  /\ ~client.null
  /\ remote.queries < MaxCalls
  /\ \E db \in {UUID1, UUID2}, s \in Statements, resp \in QueryResponses :
       \E q \in {ClientQuery(client, db, s.query, namedValuesToAny(s.args), resp)} :
         /\ client' = q.client
         /\ remote' = Queried(db)
         /\ hist' = Summed(q)
         /\ last' = DriverCall("Client.Query", Outcome(q.panic), q.err, q.result, resp, <<>>)
  /\ UNCHANGED <<cursorVars, conn, stmt, cur>>

CallClientRowsRead ==
  /\ Running
  /\ ~client.null
  /\ \E r \in {ClientRowsRead(client)} :
       /\ client' = r.client
       /\ last' = DriverCall("Client.RowsRead", IF r.fatal THEN "fatal" ELSE "ok", NilError,
                             [null |-> FALSE, n |-> r.ret], NoResponse, <<>>)
  /\ UNCHANGED <<cursorVars, hist, remote, conn, stmt, cur>>

CallClientRowsWritten ==
  /\ Running
  /\ ~client.null
  /\ \E r \in {ClientRowsWritten(client)} :
       /\ client' = r.client
       /\ last' = DriverCall("Client.RowsWritten", IF r.fatal THEN "fatal" ELSE "ok",
                             NilError, [null |-> FALSE, n |-> r.ret], NoResponse, <<>>)
  /\ UNCHANGED <<cursorVars, hist, remote, conn, stmt, cur>>

CallClientResetCounters ==
  /\ Running
  /\ ~client.null
  /\ \E r \in {ClientResetCounters(client)} :
       /\ client' = r.client
       /\ hist' = [hist EXCEPT !.sumRead = 0, !.sumWritten = 0]
       /\ last' = DriverCall("Client.ResetCounters", IF r.fatal THEN "fatal" ELSE "ok",
                             NilError, Nil, NoResponse, <<>>)
  /\ UNCHANGED <<cursorVars, remote, conn, stmt, cur>>

NextDriver ==
  \/ CallNewClient
  \/ CallConnect
  \/ CallBegin
  \/ CallBeginTx
  \/ CallExecContext
  \/ CallQueryContext
  \/ CallPrepareContext
  \/ CallStmtExecContext
  \/ CallStmtQueryContext
  \/ CallDriverRowsNext
  \/ CallClientQuery
  \/ CallClientRowsRead
  \/ CallClientRowsWritten
  \/ CallClientResetCounters

SpecDriver == InitDriver /\ [][NextDriver]_vars

-----------------------------------------------------------------------------
(* A Handle in use.  The connection exists, made by Connect for the         *)
(* identifier UUID1, and its handle is called directly and through the      *)
(* connection; rows and row are the cursors QueryRows and QueryRow handed    *)
(* out last.  last is as under SpecDriver.  hist.sumRead and                *)
(* hist.sumWritten are the sums of the metadata of the successful           *)
(* operations issued through the handle, which is what every operation of   *)
(* this specification is.                                                   *)

\* the answers to a raw query: one set of one row, two sets of two rows and
\* one row, no set, an error of the SQLite engine and a failed request
RawResponses ==
  {RawSuccess(Batch(<<1>>), <<Meta(0, 1, 0)>>),
   RawSuccess(Batch(<<2, 1>>), <<Meta(0, 2, 0), Meta(7, 0, 1)>>),
   RawSuccess(<<>>, <<>>),
   RawFailure(D1Error(CodeSQLite, <<110, 101, 97, 114, 32, 108, 105, 110, 101, 32, 88, 58, 32, 83, 81, 76, 73, 84, 69, 95, 67, 79, 78, 83, 84, 82, 65, 73, 78, 84>>)),
   RawFailure(OtherError("sending request"))}

\* the answers to "SELECT 1": its row, and a failed request
PingResponses ==
  {Success(<< QueryResult(Meta(0, 1, 0), <<RowA>>) >>),
   Failure(OtherError("sending request"))}

\* imports through the handle: a file that is already uploaded and whose
\* import is complete at once, a file that is uploaded, ingested and
\* complete after one poll, and a failed init request
HandleImports ==
  {[md5 |-> NilError, init |-> ImportResponse("", "complete", Meta(0, 3, 4)),
    upload |-> NilError, ingest |-> ImportFailure(OtherError("not asked")), polls |-> <<>>],
   [md5 |-> NilError, init |-> ImportResponse("https://upload", "", Meta(0, 0, 0)),
    upload |-> NilError, ingest |-> ImportResponse("", "active", Meta(0, 0, 0)),
    polls |-> <<ImportResponse("", "complete", Meta(0, 1, 2))>>],
   [md5 |-> NilError, init |-> ImportFailure(OtherError("sending request")),
    upload |-> NilError, ingest |-> ImportFailure(OtherError("not asked")), polls |-> <<>>]}

RECURSIVE SumRowsRead(_)
SumRowsRead(metas) ==
  IF metas = <<>> THEN 0 ELSE Head(metas).RowsRead + SumRowsRead(Tail(metas))

RECURSIVE SumRowsWritten(_)
SumRowsWritten(metas) ==
  IF metas = <<>> THEN 0 ELSE Head(metas).RowsWritten + SumRowsWritten(Tail(metas))

\* hist after a raw query answered by resp
SummedRaw(resp) ==
  IF resp.err # NilError THEN hist
  ELSE [hist EXCEPT !.sumRead = @ + SumRowsRead(resp.metas),
                    !.sumWritten = @ + SumRowsWritten(resp.metas)]

InitHandle ==
  /\ rows = NilRows
  /\ row = NilRow
  /\ remote = [lists |-> 0, queries |-> 0, db |-> <<>>]
  /\ client = NewClient
  /\ conn = connectorConnect(UUID1, NoResponse).conn
  /\ stmt = Nil
  /\ cur = Nil
  /\ hist = [NoDriverHist EXCEPT !.target = UUID1, !.connects = 1]
  /\ last = [op |-> "connector.Connect", outcome |-> "ok", err |-> NilError, res |-> Nil,
             resp |-> NoResponse, dest |-> <<>>,
             before |-> [conn |-> Nil, client |-> Nil,
                         remote |-> [lists |-> 0, queries |-> 0, db |-> <<>>],
                         stmt |-> Nil, cur |-> Nil, dest |-> <<>>]]

CallPing ==
  /\ Running
  /\ ~conn.null
  /\ remote.queries < MaxCalls
  /\ \E resp \in PingResponses :
       \E q \in {connPing(conn, client, resp)} :
         /\ conn' = q.conn
         /\ client' = q.client
         /\ remote' = Queried(conn.handle.dbID)
         /\ hist' = Summed(ClientQuery(client, conn.handle.dbID, PingQuery, <<>>, resp))
         /\ last' = DriverCall("conn.Ping", Outcome(q.panic), q.err, Nil, resp, <<>>)
  /\ UNCHANGED <<cursorVars, stmt, cur>>

CallHandleExecute ==
  /\ Running
  /\ ~conn.null
  /\ remote.queries < MaxCalls
  /\ \E s \in Statements, resp \in QueryResponses :
       \E q \in {HandleExecute(conn.handle, client, s.query, namedValuesToAny(s.args), resp)} :
         /\ conn' = [conn EXCEPT !.handle = q.handle]
         /\ client' = q.client
         /\ remote' = Queried(conn.handle.dbID)
         /\ hist' = Summed(ClientQuery(client, conn.handle.dbID, s.query,
                                        namedValuesToAny(s.args), resp))
         /\ last' = DriverCall("Handle.Execute", Outcome(q.panic), q.err, Nil, resp, <<>>)
  /\ UNCHANGED <<cursorVars, stmt, cur>>

CallHandleQueryRow ==
  /\ Running
  /\ ~conn.null
  /\ remote.queries < MaxCalls
  /\ \E s \in Statements, resp \in RawResponses :
       \E q \in {HandleQueryRow(conn.handle, client, s.query, namedValuesToAny(s.args), resp)} :
         /\ row' = q.row
         /\ client' = q.client
         /\ remote' = Queried(conn.handle.dbID)
         /\ hist' = SummedRaw(resp)
         /\ last' = DriverCall("Handle.QueryRow", Outcome(q.panic), NilError, Nil, resp, <<>>)
  /\ UNCHANGED <<rows, conn, stmt, cur>>

CallHandleQueryRows ==
  /\ Running
  /\ ~conn.null
  /\ remote.queries < MaxCalls
  /\ \E s \in Statements, resp \in RawResponses :
       \E q \in {HandleQueryRows(conn.handle, client, s.query, namedValuesToAny(s.args), resp)} :
         /\ rows' = q.rows
         /\ client' = q.client
         /\ remote' = Queried(conn.handle.dbID)
         /\ hist' = SummedRaw(resp)
         /\ last' = DriverCall("Handle.QueryRows", Outcome(q.panic), NilError, Nil, resp, <<>>)
  /\ UNCHANGED <<row, conn, stmt, cur>>

\* the requests of an import are counted as one call of the remote service
CallHandleImport ==
  /\ Running
  /\ ~conn.null
  /\ remote.queries < MaxCalls
  /\ \E s \in HandleImports :
       \E r \in {HandleImport(conn.handle, client, s)} :
         /\ conn' = [conn EXCEPT !.handle = r.handle]
         /\ client' = r.client
         /\ remote' = Queried(conn.handle.dbID)
         /\ hist' = IF r.err # NilError THEN hist
                    ELSE [hist EXCEPT !.sumRead = @ + r.result.RowsRead,
                                      !.sumWritten = @ + r.result.RowsWritten]
         /\ last' = DriverCall("Handle.Import", "ok", r.err, r.result, NoResponse, <<>>)
  /\ UNCHANGED <<cursorVars, stmt, cur>>

CallHandleRowsRead ==
  /\ Running
  /\ ~conn.null
  /\ \E r \in {HandleRowsRead(conn.handle)} :
       /\ conn' = [conn EXCEPT !.handle = r.handle]
       /\ last' = DriverCall("Handle.RowsRead", IF r.fatal THEN "fatal" ELSE "ok", NilError,
                             [null |-> FALSE, n |-> r.ret], NoResponse, <<>>)
  /\ UNCHANGED <<cursorVars, hist, remote, client, stmt, cur>>

CallHandleRowsWritten ==
  /\ Running
  /\ ~conn.null
  /\ \E r \in {HandleRowsWritten(conn.handle)} :
       /\ conn' = [conn EXCEPT !.handle = r.handle]
       /\ last' = DriverCall("Handle.RowsWritten", IF r.fatal THEN "fatal" ELSE "ok", NilError,
                             [null |-> FALSE, n |-> r.ret], NoResponse, <<>>)
  /\ UNCHANGED <<cursorVars, hist, remote, client, stmt, cur>>

CallHandleLastRowID ==
  /\ Running
  /\ ~conn.null
  /\ last' = DriverCall("Handle.LastRowID", "ok", NilError,
                        [null |-> FALSE, n |-> HandleLastRowID(conn.handle)], NoResponse, <<>>)
  /\ UNCHANGED <<cursorVars, hist, driverVars>>

NextHandle ==
  \/ CallExecContext
  \/ CallQueryContext
  \/ CallPing
  \/ CallHandleExecute
  \/ CallHandleQueryRow
  \/ CallHandleQueryRows
  \/ CallHandleImport
  \/ CallHandleRowsRead
  \/ CallHandleRowsWritten
  \/ CallHandleLastRowID

SpecHandle == InitHandle /\ [][NextHandle]_vars

-----------------------------------------------------------------------------
(* Client.Import as a function of its script.  Under SpecImport last is     *)
(* [op, script, result, err, trace, before]: the script the file system and  *)
(* the remote service follow, what Import returned, the requests it made    *)
(* and the client as it was before.                                         *)

MaxPolls == 2

\* the statuses of an import: the three of the API, one it does not have,
\* and none
ImportStatuses == {"active", "complete", "error", "queued", ""}

\* a response reports the rows of the import when it is complete
ImportMeta(status) == IF status = "complete" THEN Meta(0, 3, 4) ELSE Meta(0, 0, 0)

\* the responses to the init request: with an upload URL when the file is
\* not uploaded yet
ImportInits ==
  {ImportFailure(OtherError("sending request"))}
  \cup {ImportResponse(u, st, ImportMeta(st)) :
          u \in {"", "https://upload"}, st \in ImportStatuses}

\* the responses to the ingest request and to a poll request
ImportPolls ==
  {ImportFailure(OtherError("sending request"))}
  \cup {ImportResponse("", st, ImportMeta(st)) : st \in ImportStatuses}

\* the scripts: the last poll response of a script is not "active"
ImportScripts ==
  {[md5 |-> m, init |-> i, upload |-> u, ingest |-> g, polls |-> ps] :
     m \in {NilError, OtherError("open file")},
     i \in ImportInits,
     u \in {NilError, OtherError("upload status 403")},
     g \in ImportPolls,
     ps \in {qs \in [1..MaxPolls -> ImportPolls] :
               qs[MaxPolls].err # NilError \/ qs[MaxPolls].Status # "active"}}

\* clients: a new one, and one that has imported before
ImportClients == {NewClient, [NewClient EXCEPT !.rowsRead = 3, !.rowsWritten = 4]}

InitImport ==
  /\ rows = NilRows
  /\ row = NilRow
  /\ remote = [lists |-> 0, queries |-> 0, db |-> <<>>]
  /\ client \in ImportClients
  /\ conn = Nil
  /\ stmt = Nil
  /\ cur = Nil
  /\ hist = NoDriverHist
  /\ \E s \in ImportScripts :
       last = [op |-> "none", script |-> s, result |-> Nil, err |-> NilError,
               trace |-> <<>>, before |-> client]

CallImport ==
  /\ last.op = "none"
  /\ \E r \in {ClientImport(client, last.script)} :
       /\ client' = r.client
       /\ last' = [op |-> "Client.Import", script |-> last.script, result |-> r.result,
                   err |-> r.err, trace |-> r.trace, before |-> client]
  /\ UNCHANGED <<cursorVars, hist, remote, conn, stmt, cur>>

NextImport == CallImport

SpecImport == InitImport /\ [][NextImport]_vars

-----------------------------------------------------------------------------
(* Client.Export, step by step.  Under SpecExport last is the call of      *)
(* Export in progress: its position pc ("start", "select" at the head of   *)
(* the polling loop, "done"), its options, the state of its context, the   *)
(* requests sent so far, each with the status last reported when it was    *)
(* sent, the waiting time of the loop in milliseconds, and what it         *)
(* returned.                                                               *)

MaxExportPolls == 3

\* opts: nil, and the four combinations of NoData and NoSchema
ExportOptionsSet ==
  {Nil} \cup {[NoData |-> d, NoSchema |-> s] : d \in BOOLEAN, s \in BOOLEAN}

ExportFailure(err) ==
  [err |-> err, Status |-> "", AtBookmark |-> "", Error |-> "", SignedURL |-> ""]

ExportResponse(status, bookmark, url) ==
  [err |-> NilError, Status |-> status, AtBookmark |-> bookmark,
   Error |-> IF status = "error" THEN "export error" ELSE "", SignedURL |-> url]

\* what sendRequest can give: a failure, or a response with one of the
\* statuses of the API, one it does not have, or none; a complete export
\* carries its signed URL
ExportResponses ==
  {ExportFailure(OtherError("sending request"))}
  \cup {ExportResponse(st, b, IF st = "complete" THEN "https://signed" ELSE "") :
          st \in {"active", "complete", "error", "queued", ""}, b \in {"", "bm1"}}

\* a request of a cancelled context fails
ExportSendRequest(ctx) ==
  IF ctx = "cancelled" THEN {ExportFailure(OtherError("context canceled"))}
  ELSE ExportResponses

ExportReturn(url, err) ==
  [last EXCEPT !.pc = "done", !.url = url, !.err = err]

InitExport ==
  /\ rows = NilRows
  /\ row = NilRow
  /\ remote = [lists |-> 0, queries |-> 0, db |-> <<>>]
  /\ client = NewClient
  /\ conn = Nil
  /\ stmt = Nil
  /\ cur = Nil
  /\ hist = NoDriverHist
  /\ \E o \in ExportOptionsSet, cx \in {"live", "cancelled"} :
       last = [op |-> "Client.Export", pc |-> "start", opts |-> o, ctx |-> cx,
               requests |-> <<>>, status |-> "", bookmark |-> "", waitTime |-> 0,
               url |-> "", err |-> NilError]

\* func (c *Client) Export(ctx, databaseID, opts) up to its return or its
\* call of pollExportStatus
Export ==
  /\ last.op = "Client.Export"
  /\ last.pc = "start"
  /\ IF last.opts # Nil /\ last.opts.NoData /\ last.opts.NoSchema
     THEN last' = ExportReturn("", D1Error(99999, "cannot export with both no_data and no_schema"))
     ELSE \E response \in ExportSendRequest(last.ctx) :
            \E sent \in {Append(last.requests, [kind |-> "init", after |-> last.status])} :
              IF response.err # NilError
              THEN last' = [ExportReturn("", Wrapped("initiating export", response.err))
                              EXCEPT !.requests = sent]
              ELSE IF response.Status = "complete"
              THEN last' = [ExportReturn(response.SignedURL, NilError)
                              EXCEPT !.requests = sent, !.status = response.Status]
              ELSE last' = [last EXCEPT !.pc = "select", !.requests = sent,
                                        !.status = response.Status,
                                        !.bookmark = response.AtBookmark,
                                        !.waitTime = 250]
  /\ UNCHANGED <<cursorVars, hist, driverVars>>

\* the poll requests sent so far
PollsSent == Cardinality({i \in 1..Len(last.requests) : last.requests[i].kind = "poll"})

\* the server stops reporting "active" after MaxExportPolls polls
ExportPollResponses(ctx) ==
  IF PollsSent + 1 < MaxExportPolls THEN ExportSendRequest(ctx)
  ELSE {r \in ExportSendRequest(ctx) : r.err # NilError \/ r.Status # "active"}

\* func (c *Client) pollExportStatus(ctx, path, bookmark): one turn of its
\* loop
pollExportStatus ==
  /\ last.op = "Client.Export"
  /\ last.pc = "select"
  /\ IF last.ctx = "cancelled"
     THEN last' = ExportReturn("", OtherError("context canceled"))
     ELSE \E response \in ExportPollResponses(last.ctx) :
            \E sent \in {Append(last.requests, [kind |-> "poll", after |-> last.status])} :
              IF response.err # NilError
              THEN last' = [ExportReturn("", Wrapped("polling export", response.err))
                              EXCEPT !.requests = sent]
              ELSE IF response.Status = "active"
              THEN last' = [last EXCEPT !.requests = sent, !.status = "active",
                                        !.waitTime = IF @ < 1000 THEN @ * 2 ELSE @]
              ELSE IF response.Status = "complete"
              THEN last' = [ExportReturn(response.SignedURL, NilError)
                              EXCEPT !.requests = sent, !.status = response.Status]
              ELSE IF response.Status = "error"
              THEN last' = [ExportReturn("", Wrapped("export failed", D1Error(99999, response.Error)))
                              EXCEPT !.requests = sent, !.status = response.Status]
              ELSE last' = [ExportReturn("", OtherError("unknown status"))
                              EXCEPT !.requests = sent, !.status = response.Status]
  /\ UNCHANGED <<cursorVars, hist, driverVars>>

\* the caller cancels the context while Export runs
CancelContext ==
  /\ last.op = "Client.Export"
  /\ last.pc # "done"
  /\ last.ctx = "live"
  /\ last' = [last EXCEPT !.ctx = "cancelled"]
  /\ UNCHANGED <<cursorVars, hist, driverVars>>

NextExport == Export \/ pollExportStatus \/ CancelContext

SpecExport == InitExport /\ [][NextExport]_vars

\* the goroutine that runs Export keeps running
FairSpecExport == SpecExport /\ WF_vars(Export) /\ WF_vars(pollExportStatus)

-----------------------------------------------------------------------------
(* Goroutines on one handle.  Under SpecGo NumProcs goroutines make one    *)
(* call each on the connection conn, its handle and the client, and their  *)
(* steps interleave at the operations of the two mutexes.  last is [op,     *)
(* fatal, procs]: fatal tells that the runtime ended the process, and       *)
(* procs[p] is goroutine p as [op, pc, result, err, meta, res, ret]: its    *)
(* call, its position in it, the metadata its query returned, the error it *)
(* returns, the metadata it read back, the driver result it returns and    *)
(* the number it returns.                                                   *)

NumProcs == 2

GoOps ==
  {"conn.ExecContext", "Handle.RowsRead", "Handle.RowsWritten", "Handle.LastRowID",
   "Client.RowsRead", "Client.RowsWritten", "Client.ResetCounters"}

\* the position a call starts at
GoStart(op) ==
  IF op = "conn.ExecContext" THEN "Query"
  ELSE IF op = "Client.ResetCounters" THEN "Lock"
  ELSE "RLock"

\* the mutex a call works on once it has its query result
OnClient(op) == op \in {"Client.RowsRead", "Client.RowsWritten", "Client.ResetCounters"}

MuxOf(op) == IF OnClient(op) THEN client.mux ELSE conn.handle.mux

\* the answers to the statement of an ExecContext: an INSERT with row id 5
\* and one row written, an INSERT with row id 6 and two rows written, and
\* a failed request
GoResponses ==
  {Success(<< QueryResult(Meta(5, 0, 1), <<>>) >>),
   Success(<< QueryResult(Meta(6, 0, 2), <<>>) >>),
   Failure(OtherError("sending request"))}

GoStatement == <<73, 78, 83, 69, 82, 84>>

GoProc(op) ==
  [op |-> op, pc |-> GoStart(op), result |-> Meta(0, 0, 0), err |-> NilError,
   meta |-> Meta(0, 0, 0), res |-> Nil, ret |-> 0]

InitGo ==
  /\ rows = NilRows
  /\ row = NilRow
  /\ remote = [lists |-> 0, queries |-> 0, db |-> <<>>]
  /\ client = NewClient
  /\ conn = connectorConnect(UUID1, NoResponse).conn
  /\ stmt = Nil
  /\ cur = Nil
  /\ hist = [NoDriverHist EXCEPT !.target = UUID1, !.connects = 1]
  /\ \E ops \in [1..NumProcs -> GoOps] :
       last = [op |-> "go", fatal |-> FALSE, procs |-> [p \in 1..NumProcs |-> GoProc(ops[p])]]

GoAt(p, pc) == ~last.fatal /\ last.procs[p].pc = pc

\* goroutine p moves on as q
GoStep(p, q) == last' = [last EXCEPT !.procs[p] = q]

\* the mutex of the call of p becomes m
SetMux(p, m) ==
  IF OnClient(last.procs[p].op)
  THEN client' = [client EXCEPT !.mux = m] /\ UNCHANGED conn
  ELSE conn' = [conn EXCEPT !.handle.mux = m] /\ UNCHANGED client

\* conn.ExecContext up to the return of h.client.Query in Handle.Query
GoQuery(p) ==
  /\ GoAt(p, "Query")
  /\ connIsValid(conn)
  /\ \E resp \in GoResponses :
       \E q \in {ClientQuery(client, conn.handle.dbID, GoStatement, <<>>, resp)} :
         /\ client' = q.client
         /\ remote' = Queried(conn.handle.dbID)
         /\ IF q.err # NilError
            THEN GoStep(p, [last.procs[p] EXCEPT !.pc = "done", !.err = q.err])
            ELSE GoStep(p, [last.procs[p] EXCEPT !.pc = "Lock", !.result = q.result.Meta])
  /\ UNCHANGED <<cursorVars, hist, conn, stmt, cur>>

\* mux.Lock() returns to p: no reader and no writer holds the mutex
GoLock(p) ==
  /\ GoAt(p, "Lock")
  /\ ~MuxOf(last.procs[p].op).writer
  /\ MuxOf(last.procs[p].op).readers = 0
  /\ SetMux(p, Lock(MuxOf(last.procs[p].op)))
  /\ GoStep(p, [last.procs[p] EXCEPT !.pc = "Locked"])
  /\ UNCHANGED <<cursorVars, hist, remote, stmt, cur>>

\* Handle.Query from its Lock to its return: the assignments and the
\* deferred Unlock
GoHandleUpdate(p) ==
  /\ GoAt(p, "Locked")
  /\ last.procs[p].op = "conn.ExecContext"
  /\ conn' = [conn EXCEPT !.handle.mux = Unlock(@).m,
                          !.handle.rowsRead = @ + last.procs[p].result.RowsRead,
                          !.handle.rowsWritten = @ + last.procs[p].result.RowsWritten,
                          !.handle.lastRowID = last.procs[p].result.LastRowID,
                          !.handle.lastMeta = last.procs[p].result]
  /\ GoStep(p, [last.procs[p] EXCEPT !.pc = "LastMeta"])
  /\ UNCHANGED <<cursorVars, hist, remote, client, stmt, cur>>

\* Client.ResetCounters from its Lock to its return
GoReset(p) ==
  /\ GoAt(p, "Locked")
  /\ last.procs[p].op = "Client.ResetCounters"
  /\ client' = [client EXCEPT !.mux = Unlock(@).m, !.rowsRead = 0, !.rowsWritten = 0]
  /\ GoStep(p, [last.procs[p] EXCEPT !.pc = "done"])
  /\ UNCHANGED <<cursorVars, hist, remote, conn, stmt, cur>>

\* c.handle.LastMeta() in conn.ExecContext: RLock, read, RUnlock
GoLastMeta(p) ==
  /\ GoAt(p, "LastMeta")
  /\ ~conn.handle.mux.writer
  /\ GoStep(p, [last.procs[p] EXCEPT !.pc = "LastRowID", !.meta = HandleLastMeta(conn.handle)])
  /\ UNCHANGED <<cursorVars, hist, driverVars>>

\* c.handle.LastRowID() in conn.ExecContext, and its return
GoLastRowID(p) ==
  /\ GoAt(p, "LastRowID")
  /\ ~conn.handle.mux.writer
  /\ GoStep(p, [last.procs[p] EXCEPT
                  !.pc = "done",
                  !.res = [null |-> FALSE,
                           rowsAffected |-> last.procs[p].meta.RowsWritten,
                           lastInsertID |-> HandleLastRowID(conn.handle)]])
  /\ UNCHANGED <<cursorVars, hist, driverVars>>

\* mux.RLock() returns to p: no writer holds the mutex
GoRLock(p) ==
  /\ GoAt(p, "RLock")
  /\ ~MuxOf(last.procs[p].op).writer
  /\ SetMux(p, RLock(MuxOf(last.procs[p].op)))
  /\ GoStep(p, [last.procs[p] EXCEPT
                  !.pc = IF @ = "RLock" /\ last.procs[p].op = "Handle.LastRowID"
                         THEN "RUnlock" ELSE "Unlock"])
  /\ UNCHANGED <<cursorVars, hist, remote, stmt, cur>>

\* Handle.LastRowID from its RLock to its return: the read and the
\* deferred RUnlock
GoRUnlock(p) ==
  /\ GoAt(p, "RUnlock")
  /\ \E u \in {RUnlock(conn.handle.mux)} :
       /\ conn' = [conn EXCEPT !.handle.mux = u.m]
       /\ last' = [last EXCEPT !.fatal = u.fatal,
                               !.procs[p].pc = IF u.fatal THEN "fatal" ELSE "done",
                               !.procs[p].ret = HandleLastRowID(conn.handle)]
  /\ UNCHANGED <<cursorVars, hist, remote, client, stmt, cur>>

\* what p returns from RowsRead or RowsWritten
GoCounter(p) ==
  IF last.procs[p].op = "Handle.RowsRead" THEN conn.handle.rowsRead
  ELSE IF last.procs[p].op = "Handle.RowsWritten" THEN conn.handle.rowsWritten
  ELSE IF last.procs[p].op = "Client.RowsRead" THEN client.rowsRead
  ELSE client.rowsWritten

\* a goroutine waits in Lock() of the mutex of the call of p
WriterWaits(p) ==
  \E q \in 1..NumProcs :
    /\ q # p
    /\ last.procs[q].pc = "Lock"
    /\ OnClient(last.procs[q].op) = OnClient(last.procs[p].op)

\* RowsRead and RowsWritten from their RLock to their return: the read and
\* the deferred Unlock of a mutex that is locked for reading.  The runtime
\* ends the process with "sync: Unlock of unlocked RWMutex"; when a writer
\* has announced itself and waits for the readers, Unlock does not see the
\* fault, the call returns, the read lock is never released and the
\* writer waits on.
GoUnlockOfReader(p) ==
  /\ GoAt(p, "Unlock")
  /\ \E u \in {Unlock(MuxOf(last.procs[p].op))} :
       \/ /\ last' = [last EXCEPT !.fatal = u.fatal,
                                   !.procs[p].pc = IF u.fatal THEN "fatal" ELSE "done",
                                   !.procs[p].ret = GoCounter(p)]
          /\ SetMux(p, u.m)
       \/ /\ u.fatal
          /\ WriterWaits(p)
          /\ last' = [last EXCEPT !.procs[p].pc = "done", !.procs[p].ret = GoCounter(p)]
          /\ UNCHANGED <<client, conn>>
  /\ UNCHANGED <<cursorVars, hist, remote, stmt, cur>>

NextGo ==
  \E p \in 1..NumProcs :
    \/ GoQuery(p)
    \/ GoLock(p)
    \/ GoHandleUpdate(p)
    \/ GoReset(p)
    \/ GoLastMeta(p)
    \/ GoLastRowID(p)
    \/ GoRLock(p)
    \/ GoRUnlock(p)
    \/ GoUnlockOfReader(p)

SpecGo == InitGo /\ [][NextGo]_vars

-----------------------------------------------------------------------------
(* Properties of the Rows cursor *)

Min(a, b) == IF a < b THEN a ELSE b

\* a *Rows built by newRows without a carried error over at least one set
BuiltOverSets == ~rows.null /\ rows.err = NoErr /\ Len(rows.result) >= 1

\* the cursor is on a row: no error, and current is the index of a row of
\* the set at currentSet
OnRow ==
  /\ BuiltOverSets
  /\ rows.currentSet < Len(rows.result)
  /\ rows.current >= 0
  /\ rows.current < Len(rows.result[rows.currentSet + 1].Rows)

\* the outcome [ret, col, dest] of the last call of Scan is that of scanning
\* the values vals into the destinations the call was given
ScannedFrom(vals) ==
  \E arch \in GoArchs :
    [ret |-> last.ret, col |-> last.col, dest |-> last.after]
      = scanFrom(1, vals, last.before, arch)

\* C1: on a cursor freshly built without a carried error, before any
\* NextSet(), with N the number of rows of the first set: call k of Next()
\* returns true exactly when k <= N, after the k-th true call the cursor is on
\* row k-1 of the first set, and Scan then reads that row.
C1_NextDeliversRowsInOrder ==
  (BuiltOverSets /\ hist.nextSets = 0) =>
    LET N == Len(rows.result[1].Rows)
    IN  /\ hist.trues = Min(hist.nexts, N)
        /\ hist.nexts >= 1 => hist.lastNext = Bool(hist.nexts <= N)
        /\ hist.lastNext = "true" =>
             /\ rows.rs = 0 /\ rows.currentSet = 0
             /\ rows.current = hist.nexts - 1
             /\ last.op = "Rows.Scan" => ScannedFrom(rows.result[1].Rows[hist.nexts])

\* C1 witness: every row of a first set of MaxRows rows was delivered and
\* the call after them returned false
C1_Witness ==
  /\ BuiltOverSets /\ hist.nextSets = 0
  /\ Len(rows.result[1].Rows) = MaxRows
  /\ hist.nexts = MaxRows + 1 /\ hist.trues = MaxRows
  /\ last.op = "Rows.Next" /\ last.ret = "false"

\* C2 (as claimed): over M >= 1 sets of any sizes, call k of NextSet() returns
\* true exactly when k <= M-1, and a call that returns true leaves set k
\* active with the row cursor before its first row.
C2_NextSetCrossesEverySet ==
  BuiltOverSets =>
    LET M == Len(rows.result)
    IN  /\ hist.setTrues = Min(hist.nextSets, M - 1)
        /\ last.op = "Rows.NextSet" =>
             /\ last.ret = Bool(hist.nextSets <= M - 1)
             /\ last.ret = "true" =>
                  /\ rows.currentSet = hist.nextSets /\ rows.rs = hist.nextSets
                  /\ rows.current = -1

\* C3 (as claimed): currentSet is in [0, N) and current in [-1, rowCount).
C3_CursorWithinClaimedBounds ==
  BuiltOverSets =>
    /\ rows.currentSet >= 0 /\ rows.currentSet < Len(rows.result)
    /\ rows.current >= -1 /\ rows.current < Len(ActiveRows(rows))

\* C3 (amended): currentSet is in [0, N] and current is at least -1; the
\* active set is set min(currentSet, N-1); and while the latest Next() on
\* the active set returned true, currentSet is in [0, N) and current in
\* [0, rowCount).
C3_CursorBounds ==
  BuiltOverSets =>
    /\ rows.currentSet >= 0 /\ rows.currentSet <= Len(rows.result)
    /\ rows.current >= -1
    /\ rows.rs = Min(rows.currentSet, Len(rows.result) - 1)
    /\ hist.lastNext = "true" =>
         /\ rows.currentSet < Len(rows.result)
         /\ rows.current >= 0 /\ rows.current < Len(ActiveRows(rows))

\* C3 witness: after a NextSet(), Next() has run current past the row count
C3_Witness ==
  /\ BuiltOverSets /\ hist.nextSets >= 1 /\ rows.currentSet >= 1
  /\ rows.current > Len(ActiveRows(rows))

\* C4: a Rows or Row built from a carried error returns that error from
\* Err(), Scan() and ScanStruct() and leaves the destinations as they were;
\* Next() and NextSet() return false.
C4_CarriedErrorIsReturned ==
  /\ (~rows.null /\ rows.err # NoErr) =>
       /\ rows = newRows(<<>>, TRUE, rows.err)
       /\ last.op \in {"Rows.Err", "Rows.Scan", "Rows.ScanStruct"} =>
            last.ret = rows.err /\ last.after = last.before
       /\ last.op \in {"Rows.Next", "Rows.NextSet"} => last.ret = "false"
  /\ (~row.null /\ row.err # NoErr) =>
       /\ row = newRow(<<>>, TRUE, row.err)
       /\ last.op \in {"Row.Err", "Row.Scan", "Row.ScanStruct"} =>
            last.ret = row.err /\ last.after = last.before

\* C4 witness: after calls of Next() and NextSet(), Scan on a cursor with a
\* carried error was given MaxDest destinations
C4_Witness ==
  /\ ~rows.null /\ rows.err \in CarriedErrors
  /\ hist.nexts >= 1 /\ hist.nextSets >= 1
  /\ last.op = "Rows.Scan" /\ Len(last.before) = MaxDest

\* what C5 says Err() returns without a carried error: the sentinel when
\* the sets are absent, currentSet is out of range or the set at currentSet
\* has no rows
C5_Expected ==
  IF \/ rows.resultNil
     \/ rows.currentSet < 0 \/ rows.currentSet >= Len(rows.result)
     \/ Len(rows.result[rows.currentSet + 1].Rows) = 0
  THEN ErrNoRows
  ELSE NoErr

\* C5: Err() panics at no reachable cursor position; on a nil cursor it
\* returns the sentinel, and without a carried error it returns the
\* sentinel exactly in the three cases, else nil.
C5_ErrNeverPanics ==
  /\ RowsErr(rows) # "panic"
  /\ last.op = "Rows.Err" => last.ret = RowsErr(rows)
  /\ rows.null => RowsErr(rows) = ErrNoRows
  /\ (~rows.null /\ rows.err = NoErr) => RowsErr(rows) = C5_Expected

\* C5 witness: Err() called after NextSet() ran past the last set
C5_Witness ==
  /\ BuiltOverSets /\ rows.currentSet = Len(rows.result)
  /\ last.op = "Rows.Err" /\ last.ret = ErrNoRows

-----------------------------------------------------------------------------
(* Properties of Row and of Scan *)

\* a *Row built without a carried error over no result or a result of no rows
EmptyRow == ~row.null /\ row.err = NoErr /\ (row.resultNil \/ Len(row.result.Rows) = 0)

\* C6: on such a Row, Err() returns the no-rows sentinel and Scan() returns
\* it too and leaves every destination as it was.
C6_EmptyRowIsNoRows ==
  EmptyRow =>
    /\ last.op \in {"Row.Err", "Row.Scan"} => last.ret = ErrNoRows
    /\ last.op = "Row.Scan" => last.after = last.before

\* C6 witness: Scan with MaxDest destinations on a Row over a result of no rows
C6_Witness ==
  /\ EmptyRow /\ ~row.resultNil
  /\ last.op = "Row.Scan" /\ Len(last.before) = MaxDest

\* the row the last call of Scan read: row 0 of a Row, the current row of a Rows
ScannedRow ==
  IF last.op = "Row.Scan" THEN row.result.Rows[1]
  ELSE rows.result[rows.currentSet + 1].Rows[rows.current + 1]

\* the last call was Scan on a row that is there
ScanOnRow ==
  \/ last.op = "Row.Scan" /\ RowErr(row) = NoErr
  \/ last.op = "Rows.Scan" /\ OnRow

\* C7: Scan with d destinations on a row of c values assigns value i to
\* destination i for the i < min(d, c), each as assign does, and returns
\* nil when every one of them succeeds; the destinations from c on are left
\* as they were.
C7_ScanAssignsTheCommonPrefix ==
  ScanOnRow =>
    LET vals == ScannedRow
        d == Len(last.before)
        m == Min(d, Len(vals))
    IN  /\ Len(last.after) = d
        /\ \A i \in (m + 1)..d : last.after[i] = last.before[i]
        /\ \E arch \in GoArchs :
             LET a(i) == assign(last.before[i], vals[i], arch)
             IN  IF \A i \in 1..m : a(i).err = "nil"
                 THEN /\ last.ret = NoErr
                      /\ \A i \in 1..m : last.after[i] = a(i).dest
                 ELSE /\ last.ret # NoErr
                      /\ \A i \in 1..m :
                           (\A h \in 1..(i - 1) : a(h).err = "nil") =>
                             (a(i).err = "nil" => last.after[i] = a(i).dest)

\* C7 witness: a Scan that returned nil with more destinations than values,
\* the one past the values being a nil pointer
C7_Witness ==
  /\ last.op = "Rows.Scan" /\ OnRow /\ last.ret = NoErr
  /\ Len(last.before) > Len(ScannedRow)
  /\ last.before[Len(last.before)].k = "nilptr"

-----------------------------------------------------------------------------
(* Properties of assign, under SpecAssign *)

\* C8: assign(dest, nil) with dest a non-nil pointer to a supported kind
\* returns no error and leaves the zero value of the kind in dest.
C8_NilZeroesTheDestination ==
  (last.op = "assign" /\ last.src.k = "nil" /\ last.dest.k \in SupportedKinds) =>
    /\ last.err = "nil"
    /\ last.out = [k |-> last.dest.k,
                   v |-> [k |-> last.dest.k, n |-> 0, s |-> <<>>, hi |-> 0]]

\* C8 witness: nil assigned to a time.Time destination that held a time
C8_Witness ==
  /\ last.op = "assign" /\ last.src.k = "nil"
  /\ last.dest = Dest("time", TimeUnix(7))

\* C9 (as claimed): an integer source of any kind and width assigned to a
\* string destination stores the decimal digits of the number.
C9_IntegerToTextIsDigits ==
  (last.op = "assign" /\ last.dest.k = "string"
     /\ last.src.k \in SignedKinds \cup UnsignedKinds) =>
    /\ last.err = "nil"
    /\ last.out.v = StrVal(FormatInt(last.src.n))

\* C10 (as claimed): an integer or unsigned destination receives a float
\* truncated toward zero, 1 or 0 for a boolean, the number a text spells,
\* and a conversion error when the text spells none that fits.
C10_ToIntegerConversions ==
  (last.op = "assign" /\ last.dest.k \in SignedKinds \cup UnsignedKinds) =>
    LET parsed == IF last.dest.k \in SignedKinds
                  THEN ParseInt(last.src.s, Bits(last.dest.k))
                  ELSE ParseUint(last.src.s, Bits(last.dest.k))
        stores(n) == /\ last.err = "nil"
                     /\ last.out.v = [k |-> last.dest.k, n |-> n, s |-> <<>>, hi |-> 0]
    IN  /\ last.src.k \in FloatKinds => stores(Trunc(last.src.n))
        /\ last.src.k = "bool" => stores(last.src.n)
        /\ (last.src.k = "string" /\ parsed.ok) => stores(parsed.n)
        /\ (last.src.k = "string" /\ ~parsed.ok) =>
             last.err = "conversion" /\ last.out = last.dest
-----------------------------------------------------------------------------
(* Properties of the field map *)

\* the annotations of a field in the order of their priority: db, sql, json
Annotations(field) == <<field.db, field.sql, field.json>>

\* the first annotation present, <<>> when the field has none
FirstAnnotation(field) ==
  LET present == {i \in 1..3 : Annotations(field)[i] # <<>>}
  IN  IF present = {} THEN <<>>
      ELSE Annotations(field)[CHOOSE i \in present : \A j \in present : i <= j]

\* the first annotation present is the skip marker "-"
Excluded(field) == FirstAnnotation(field) = <<45>>

\* the first annotation present, else the lower-cased name
ClaimedKey(field) ==
  IF FirstAnnotation(field) = <<>> THEN ToLower(field.Name) ELSE FirstAnnotation(field)

FieldMapBuilt == last.op \in {"createFieldMap", "scanStructWithMap"}

\* C11: createFieldMap keys every field by its first annotation present in
\* the order db, sql, json, leaves the field out when that annotation is
\* "-" whatever the later ones are, keys a field with no annotation by its
\* lower-cased name (the last field of a key holds it), and building the
\* map again gives the same map.
C11_FieldMapByPriority ==
  FieldMapBuilt =>
    LET t == last.t
        m == last.fm.m
        bound == {f \in 1..Len(t) : ~Excluded(t[f])}
        holder(x) == CHOOSE f \in bound :
                       /\ ClaimedKey(t[f]) = x
                       /\ \A g \in bound : ClaimedKey(t[g]) = x => g <= f
    IN  /\ ~last.fm.null
        /\ DOMAIN m = {ClaimedKey(t[f]) : f \in bound}
        /\ \A x \in DOMAIN m : m[x] = holder(x) - 1
        /\ createFieldMap(t) = last.fm

\* a map was built for a type with a field left out by "-" although a later
\* annotation is present, next to a field keyed by its lower-cased name
C11_Witness ==
  /\ last.op = "createFieldMap"
  /\ \E f, g \in 1..Len(last.t) :
       /\ last.t[f].db = <<45>> /\ last.t[f].json # <<>>
       /\ Annotations(last.t[g]) = << <<>>, <<>>, <<>> >>
       /\ last.t[g].Name # ToLower(last.t[g].Name)
       /\ DOMAIN last.fm.m = {ToLower(last.t[g].Name)}

\* C12 (as claimed): every key of a built field map is lower-cased, so a
\* column whose lower-cased name equals the lower-cased key of a field is
\* found in the map.
C12_KeysAreLowerCased ==
  FieldMapBuilt =>
    /\ \A x \in DOMAIN last.fm.m : x = ToLower(x)
    /\ \A c \in 1..Len(last.cols) :
         (\E x \in DOMAIN last.fm.m : ToLower(x) = ToLower(last.cols[c]))
           => ToLower(last.cols[c]) \in DOMAIN last.fm.m

\* the fields a column of the scanned row is mapped to
MatchedFields ==
  {last.fm.m[ToLower(last.cols[c])] + 1 :
     c \in {d \in 1..Len(last.cols) : ToLower(last.cols[d]) \in DOMAIN last.fm.m}}

\* C14: scanStructWithMap leaves every field no column is mapped to as it
\* was, reports no error for a column mapped to no field, and scanning
\* [id, name] / [1, "Alice"] into struct { ID int `db:"id"`; Name string }
\* gives ID = 1 and Name = "Alice".
C14_ScanWritesOnlyMatchedFields ==
  last.op = "scanStructWithMap" =>
    /\ \A f \in (1..Len(last.t)) \ MatchedFields : last.out[f] = last.v[f]
    /\ last.ret # NoErr => ToLower(last.cols[last.col + 1]) \in DOMAIN last.fm.m
    /\ (\A c \in 1..Len(last.cols) : ToLower(last.cols[c]) \notin DOMAIN last.fm.m)
         => last.ret = NoErr /\ last.out = last.v
    /\ (last.t = Person /\ last.cols = << <<105, 100>>, <<110, 97, 109, 101>> >>)
         => /\ last.ret = NoErr
            /\ last.out = << Val("int", 1, <<>>), StrVal(<<65, 108, 105, 99, 101>>) >>

\* a scan wrote one field from its column, left another field that has no
\* column as it was, and passed over a column that has no field
C14_Witness ==
  /\ last.op = "scanStructWithMap"
  /\ last.ret = NoErr
  /\ \E f \in MatchedFields : last.out[f] # last.v[f]
  /\ \E f \in (1..Len(last.t)) \ MatchedFields : last.out[f] = last.v[f]
  /\ \E c \in 1..Len(last.cols) : ToLower(last.cols[c]) \notin DOMAIN last.fm.m

\* the latest call was a ScanStruct with the cursor on a row and a pointer to
\* a struct as destination: it scanned the row
StructScanned ==
  /\ last.op \in {"Rows.ScanStruct", "Row.ScanStruct"}
  /\ structDestErr(last.before) = NoErr
  /\ last.op = "Rows.ScanStruct" =>
       /\ RowsErr(rows) = NoErr
       /\ rows.current >= 0 /\ rows.current < Len(ActiveRows(rows))
  /\ last.op = "Row.ScanStruct" => RowErr(row) = NoErr

\* C13 (as claimed): each ScanStruct call scans with the field map of the
\* type of its own destination.
C13_ScanStructUsesOwnMap ==
  StructScanned =>
    (IF last.op = "Rows.ScanStruct" THEN rows.fieldMap ELSE row.fieldMap)
      = createFieldMap(last.before.t)

-----------------------------------------------------------------------------
(* Properties of the errors *)

\* C19: convertSQLiteError turns a remote-service error with code 7500 into
\* a statement error carrying the statement text and the bound parameters;
\* its message is the part of the original message before the first
\* ": SQLITE_" and its token "SQLITE_" with the part after it, or the whole
\* message and "SQLITE_ERROR" when the marker is absent; every other error
\* is returned unchanged.
C19_ConvertSQLiteError ==
  last.op = "convertSQLiteError" =>
    IF last.err.type = "D1Error" /\ last.err.Code = 7500
    THEN /\ last.out.type = "SQLiteError"
         /\ last.out.Query = last.query
         /\ last.out.Bindings = last.bindings
         /\ IF \E i \in 1..Len(last.err.Message) : OccursAt(last.err.Message, Marker, i)
            THEN /\ last.out.Message \o <<58, 32>> \o last.out.SQLiteCode = last.err.Message
                 /\ SubSeq(last.out.SQLiteCode, 1, 7) = <<83, 81, 76, 73, 84, 69, 95>>
                 /\ \A i \in 1..Len(last.out.Message) :
                      ~OccursAt(last.err.Message, Marker, i)
            ELSE /\ last.out.Message = last.err.Message
                 /\ last.out.SQLiteCode = <<83, 81, 76, 73, 84, 69, 95, 69, 82, 82, 79, 82>>
         /\ last.err.Message = <<110, 101, 97, 114, 32, 108, 105, 110, 101, 32, 88, 58, 32, 83, 81, 76, 73, 84, 69, 95, 67, 79, 78, 83, 84, 82, 65, 73, 78, 84>>
              => last.out.SQLiteCode = <<83, 81, 76, 73, 84, 69, 95, 67, 79, 78, 83, 84, 82, 65, 73, 78, 84>>
    ELSE last.out = last.err

\* "a: SQLITE_B: SQLITE_C" with code 7500 was converted: the message holds
\* the marker twice
C19_Witness ==
  /\ last.op = "convertSQLiteError"
  /\ last.err = D1Error(7500, <<97, 58, 32, 83, 81, 76, 73, 84, 69, 95, 66, 58, 32, 83, 81, 76, 73, 84, 69, 95, 67>>)
  /\ last.out.Message = <<97>>
  /\ last.bindings # <<>>

-----------------------------------------------------------------------------
(* Properties of the driver *)

\* the latest call was rows.Next on the driver cursor
DriverNextCalled == last.op = "rows.Next"

\* C15: a call of Next on a driver cursor that has a row left returns nil,
\* sets dest[i] to the value of column C[i] of the row at the position for
\* every i and advances the position by one, so that the k-th call delivers
\* row k-1; a call after the last row returns io.EOF and changes neither
\* dest nor the position; rows and columns of the cursor never change.
C15_NextDeliversRowsInOrder ==
  DriverNextCalled =>
    /\ last.outcome = "ok"
    /\ cur.rows = last.before.cur.rows
    /\ cur.columns = last.before.cur.columns
    /\ IF last.before.cur.current < Len(cur.rows)
       THEN /\ last.err = NilError
            /\ cur.current = last.before.cur.current + 1
            /\ Len(last.dest) = Len(cur.columns)
            /\ \A i \in 1..Len(cur.columns) :
                 last.dest[i] = cur.rows[cur.current][cur.columns[i]]
       ELSE /\ last.err = EOF
            /\ cur.current = last.before.cur.current
            /\ last.dest = last.before.dest

\* the second call after two rows were delivered in the order name, id
C15_Witness ==
  /\ DriverNextCalled
  /\ last.err = EOF
  /\ last.before.cur.current = 2
  /\ Len(cur.rows) = 2
  /\ cur.columns[1] = <<110, 97, 109, 101>>
  /\ last.dest = <<StrVal(<<98>>), Val("float64", 200, <<>>)>>
  /\ last.before.dest = last.dest

\* the latest call was conn.Begin or conn.BeginTx
BeginCalled == last.op \in {"conn.Begin", "conn.BeginTx"}

\* C16: conn.Begin and conn.BeginTx return a nil transaction and
\* driver.ErrSkip whatever the connection has done before and whatever the
\* options are, make no request to the remote service and leave the
\* connection, its handle and the client as they were.
C16_BeginDeclines ==
  BeginCalled =>
    /\ last.outcome = "ok"
    /\ last.res = Nil
    /\ last.err = ErrSkip
    /\ remote = last.before.remote
    /\ conn = last.before.conn
    /\ client = last.before.client

\* BeginTx for a transaction of default options on a connection that has
\* inserted row 5
C16_Witness ==
  /\ last.op = "conn.BeginTx"
  /\ conn.handle.lastRowID = 5
  /\ remote.queries > 0
  /\ last.err = ErrSkip

\* the latest call was ExecContext, on the connection or on its statement
ExecCalled == last.op \in {"conn.ExecContext", "stmt.ExecContext"}

\* C17: a successful ExecContext returns a result whose LastInsertId and
\* RowsAffected are the row id and the rows-written count of the metadata
\* of the statement this execution ran most recently, the last one of its
\* response; a failed ExecContext returns the error and no result.
C17_ExecResultOfMostRecent ==
  (ExecCalled /\ last.outcome = "ok") =>
    IF last.err = NilError
    THEN /\ last.resp.err = NilError
         /\ ~last.res.null
         /\ last.res.lastInsertID = last.resp.result[Len(last.resp.result)].Meta.LastRowID
         /\ last.res.rowsAffected = last.resp.result[Len(last.resp.result)].Meta.RowsWritten
    ELSE last.res = Nil

\* the latest call was Connect
ConnectCalled == last.op = "connector.Connect"

\* the latest call was a statement executed on the connection, directly or
\* through its prepared statement
StatementCalled ==
  last.op \in {"conn.ExecContext", "conn.QueryContext", "stmt.ExecContext",
               "stmt.QueryContext"}

\* the listed databases whose name is name exactly
NamedExactly(dbs, name) == {i \in 1..Len(dbs) : dbs[i].Name = name}

\* C18: Connect resolves its target once.  A target of identifier form
\* becomes the identifier of the handle unchanged without a request; any
\* other target is looked up with one listing request and becomes the
\* identifier of the listed database of exactly that name, or Connect fails
\* with ErrNotFound when no listed database has that name.  No later call
\* lists databases or changes the identifier of the handle, and every
\* request of a statement of the connection is for that identifier.
C18_ConnectResolvesOnce ==
  /\ ConnectCalled =>
       IF IsUUID(hist.target)
       THEN /\ last.err = NilError
            /\ ~conn.null
            /\ conn.handle.dbID = hist.target
            /\ remote = last.before.remote
       ELSE /\ remote.lists = last.before.remote.lists + 1
            /\ remote.queries = last.before.remote.queries
            /\ IF last.resp.err # NilError THEN conn.null /\ last.err # NilError
               ELSE IF NamedExactly(last.resp.result, hist.target) # {}
               THEN /\ last.err = NilError
                    /\ ~conn.null
                    /\ \E i \in NamedExactly(last.resp.result, hist.target) :
                         conn.handle.dbID = last.resp.result[i].UUID
               ELSE /\ conn.null
                    /\ last.err = ErrNotFound(hist.target)
  /\ (hist.connects > 0 /\ ~ConnectCalled) =>
       /\ remote.lists = last.before.remote.lists
       /\ ~conn.null => conn.handle.dbID = last.before.conn.handle.dbID
  /\ (StatementCalled /\ remote.queries > last.before.remote.queries) =>
       remote.db = conn.handle.dbID

\* a statement prepared and executed on the connection to "prod", which one
\* listing resolved to the identifier of the database of that name
C18_Witness ==
  /\ last.op = "stmt.ExecContext"
  /\ hist.target = <<112, 114, 111, 100>>
  /\ conn.handle.dbID = UUID1
  /\ remote = [lists |-> 1, queries |-> 2, db |-> UUID1]

\* C20: Client.RowsRead() and Client.RowsWritten() return the sums of the
\* rows-read and rows-written metadata of the successful Client.Query calls
\* made since the client was created or its counters were last reset, and
\* after ResetCounters both counters are zero.
C20_ClientCountersAreSums ==
  /\ last.op = "Client.RowsRead" =>
       last.outcome = "ok" /\ last.res.n = hist.sumRead
  /\ last.op = "Client.RowsWritten" =>
       last.outcome = "ok" /\ last.res.n = hist.sumWritten
  /\ last.op = "Client.ResetCounters" =>
       last.outcome = "ok" /\ client.rowsRead = 0 /\ client.rowsWritten = 0

-----------------------------------------------------------------------------
(* Properties of the cursors at their ends *)

\* the latest call was a Next() made after an earlier Next() on the same
\* active set had returned false at the end of its rows
NextAfterExhaustion ==
  /\ BuiltOverSets
  /\ rows.currentSet < Len(rows.result)
  /\ Len(ActiveRows(rows)) > 0
  /\ last.op = "Rows.Next"
  /\ hist.nexts > Len(ActiveRows(rows)) + 1

\* C23 (as claimed): a Next() after the one that returned false at the end
\* of the rows returns false and leaves current at the row count and
\* currentSet where it was.
C23_NextAfterExhaustionKeepsCursor ==
  NextAfterExhaustion =>
    /\ last.ret = "false"
    /\ rows.current = Len(ActiveRows(rows))
    /\ rows.currentSet = hist.setTrues

\* C23 (amended): a Next() after the one that returned false at the end of
\* the rows returns false, leaves currentSet and the active set where they
\* were and adds one to current, which stays at or above the row count, so
\* that Err() stays nil and no row is current.
C23_NextAfterExhaustionReturnsFalse ==
  NextAfterExhaustion =>
    /\ last.ret = "false"
    /\ rows.currentSet = hist.setTrues
    /\ rows.rs = rows.currentSet
    /\ rows.current = hist.nexts - 1
    /\ rows.current > Len(ActiveRows(rows))
    /\ RowsErr(rows) = NoErr
    /\ ~OnRow

\* C23 witness: the second Next() after the only row of the second set
C23_Witness ==
  /\ NextAfterExhaustion
  /\ rows.currentSet = 1
  /\ Len(ActiveRows(rows)) = 1
  /\ hist.nexts = 3
  /\ rows.current = 2

\* a *Rows built without a carried error over sets that all have rows
BuiltOverNonEmptySets ==
  /\ BuiltOverSets
  /\ \A j \in 1..Len(rows.result) : Len(rows.result[j].Rows) > 0

\* C24: on a cursor over non-empty result sets Scan and ScanStruct never
\* panic, wherever Next() and NextSet() have left the cursor; when the
\* cursor is not on a row they return sql.ErrNoRows and leave the
\* destinations as they were.
C24_ScanNeverPanics ==
  (BuiltOverNonEmptySets /\ last.op \in {"Rows.Scan", "Rows.ScanStruct"}) =>
    /\ last.ret # "panic"
    /\ ~OnRow => (last.ret = ErrNoRows /\ last.after = last.before)

\* the latest call was QueryContext, on the connection or on its statement,
\* and the remote service answered it with a result of zero rows
QueriedZeroRows ==
  /\ last.op \in {"conn.QueryContext", "stmt.QueryContext"}
  /\ last.resp.err = NilError
  /\ Len(last.resp.result) > 0
  /\ Len(last.resp.result[1].Results) = 0

\* C27: a QueryContext that the remote service answers with zero rows does
\* not panic; it returns a cursor whose first Next() returns io.EOF.
C27_QueryOfZeroRowsGivesEmptyCursor ==
  QueriedZeroRows =>
    /\ last.outcome = "ok"
    /\ last.err = NilError
    /\ ~last.res.null
    /\ rowsNext(last.res, <<>>).err = EOF

-----------------------------------------------------------------------------
(* Properties of the Handle *)

\* what the cursor of a raw query answered by resp has to report: the
\* error of the remote service as RawQuery classifies it, or no rows when
\* there is no result set
ExpectedOf(resp) ==
  IF resp.err # NilError THEN CarriedError(convertSQLiteError(resp.err, <<>>, <<>>))
  ELSE IF Len(resp.result) = 0 THEN ErrNoRows
  ELSE NoErr

\* the latest call was QueryRow or QueryRows and the remote service failed
\* or returned no result set
RawQueryWithoutResult ==
  /\ last.op \in {"Handle.QueryRow", "Handle.QueryRows"}
  /\ ExpectedOf(last.resp) # NoErr

\* C22: when the remote service fails or returns no result set, QueryRow
\* and QueryRows do not panic; the Row or Rows they return reports the
\* error of the service, or sql.ErrNoRows when there is no result set, from
\* Err() and from Scan(), which leaves its destinations as they were.
C22_RawQueryFailureIsCarried ==
  RawQueryWithoutResult =>
    /\ last.outcome = "ok"
    /\ last.op = "Handle.QueryRow" =>
         /\ ~row.null
         /\ RowErr(row) = ExpectedOf(last.resp)
         /\ \A dest \in ScanDests, arch \in GoArchs :
              RowScan(row, dest, arch) = Returned(ExpectedOf(last.resp), dest)
    /\ last.op = "Handle.QueryRows" =>
         /\ ~rows.null
         /\ RowsErr(rows) = ExpectedOf(last.resp)
         /\ \A dest \in ScanDests, arch \in GoArchs :
              RowsScan(rows, dest, arch) = Returned(ExpectedOf(last.resp), dest)

\* the latest call executed statements through the handle with success
StatementsSucceeded ==
  /\ last.op \in {"conn.ExecContext", "conn.QueryContext", "conn.Ping", "Handle.Execute",
                  "Handle.QueryRow", "Handle.QueryRows"}
  /\ last.outcome = "ok"
  /\ last.err = NilError
  /\ last.resp.err = NilError
  /\ Len(last.resp.result) > 0

\* the Meta of the statement a response reports last
RecentMeta(resp) ==
  IF "metas" \in DOMAIN resp THEN resp.metas[Len(resp.metas)]
  ELSE resp.result[Len(resp.result)].Meta

\* C26: Handle.RowsRead() and Handle.RowsWritten() return the sums of the
\* rows-read and rows-written metadata of the successful operations issued
\* through the handle, and after a successful operation LastRowID() and
\* LastMeta() are those of the statement executed most recently.
C26_HandleCountersAreTotals ==
  /\ last.op = "Handle.RowsRead" =>
       last.outcome = "ok" /\ last.res.n = hist.sumRead
  /\ last.op = "Handle.RowsWritten" =>
       last.outcome = "ok" /\ last.res.n = hist.sumWritten
  /\ StatementsSucceeded =>
       /\ HandleLastMeta(conn.handle) = RecentMeta(last.resp)
       /\ HandleLastRowID(conn.handle) = RecentMeta(last.resp).LastRowID

\* the latest call went to Handle.Query through the connection and the
\* remote service answered it with an error
QueryFailed ==
  /\ last.op \in {"conn.ExecContext", "conn.QueryContext", "conn.Ping"}
  /\ last.resp.err # NilError

\* the error err is what the caller gets for the error e of the remote
\* service: e itself, or its classification as an error of SQLite
ReturnedFor(err, e) ==
  \/ err = e
  \/ /\ e.type = "D1Error"
     /\ e.Code = CodeSQLite
     /\ err.type = "SQLiteError"
     /\ err = convertSQLiteError(e, err.Query, err.Bindings)

\* C28: when the remote service answers Handle.Query with an error, called
\* by ExecContext, QueryContext or Ping, one request was made, the caller
\* gets the error and no result, and the handle, its counters, lastRowID
\* and lastMeta, is as it was before the call.
C28_FailedCallLeavesHandle ==
  QueryFailed =>
    /\ last.outcome = "ok"
    /\ remote.queries = last.before.remote.queries + 1
    /\ remote.lists = last.before.remote.lists
    /\ ReturnedFor(last.err, last.resp.err)
    /\ last.res = Nil
    /\ conn.handle = last.before.conn.handle
    /\ cur = last.before.cur

\* C28 witness: an ExecContext fails with an error of SQLite on a handle
\* that has inserted row 5 before
C28_Witness ==
  /\ QueryFailed
  /\ last.op = "conn.ExecContext"
  /\ last.err.type = "SQLiteError"
  /\ conn.handle.lastRowID = 5
  /\ conn.handle.rowsWritten = 1
  /\ remote.queries = 2

-----------------------------------------------------------------------------
(* Properties of Import *)

Imported == last.op = "Client.Import"

\* the script asks for an upload: the init response carries an upload URL
NeedsUpload(s) == s.init.UploadURL # ""

\* the requests before the polling that the script lets Import make
StepsBeforePolling(s) ==
  IF s.md5 # NilError THEN <<>>
  ELSE IF s.init.err # NilError \/ ~NeedsUpload(s) THEN <<"init">>
  ELSE IF s.upload # NilError THEN <<"init", "upload">>
  ELSE <<"init", "upload", "ingest">>

\* Import gets as far as the polling
ReachesPolling(s) ==
  /\ s.md5 = NilError
  /\ s.init.err = NilError
  /\ NeedsUpload(s) => (s.upload = NilError /\ s.ingest.err = NilError)

\* the k-th status report of the polling: the response to init or to
\* ingest for k = 0, then the response to the k-th poll request
Report(s, k) ==
  IF k > 0 THEN s.polls[k] ELSE IF NeedsUpload(s) THEN s.ingest ELSE s.init

StillActive(s, k) == Report(s, k).err = NilError /\ Report(s, k).Status = "active"

\* the number of poll requests due: poll k is due when every report before
\* it was "active"
PollsDue(s) ==
  Cardinality({k \in 1..Len(s.polls) : \A j \in 0..(k - 1) : StillActive(s, j)})

\* C29: Import makes its requests in the order init, upload, ingest, polls.
\* The upload and then the ingest request are made exactly when the init
\* response carries an upload URL; a poll request is made exactly while the
\* last status reported is "active"; a result is returned and its rows are
\* added to the counters of the client exactly when the last status
\* reported is "complete"; otherwise, and after any failed request, an
\* error and no result are returned and the counters are as before.
C29_ImportStepsInOrder ==
  Imported =>
    /\ IF ReachesPolling(last.script)
       THEN /\ last.trace = StepsBeforePolling(last.script)
                              \o [k \in 1..PollsDue(last.script) |-> "poll"]
            /\ (last.err = NilError) <=>
                 /\ Report(last.script, PollsDue(last.script)).err = NilError
                 /\ Report(last.script, PollsDue(last.script)).Status = "complete"
       ELSE /\ last.trace = StepsBeforePolling(last.script)
            /\ last.err # NilError
    /\ IF last.err = NilError
       THEN /\ ~last.result.null
            /\ last.result.RowsRead = Report(last.script, PollsDue(last.script)).Meta.RowsRead
            /\ client.rowsRead = last.before.rowsRead + last.result.RowsRead
            /\ client.rowsWritten = last.before.rowsWritten + last.result.RowsWritten
            /\ client.mux = last.before.mux
       ELSE /\ last.result = Nil
            /\ client = last.before

\* C29 witness: a file is uploaded and ingested, the first poll reports
\* "active" and the second "complete"
C29_Witness ==
  /\ Imported
  /\ last.trace = <<"init", "upload", "ingest", "poll", "poll">>
  /\ last.err = NilError
  /\ last.before.rowsRead = 3
  /\ client.rowsRead = 6
  /\ client.rowsWritten = 8

-----------------------------------------------------------------------------
(* Properties of Export *)

\* C30: when the initiating response is "complete" Export returns at once
\* without a poll request; otherwise a poll request is sent only while the
\* status last reported is "active", and none after the context was seen
\* cancelled; Export ends with the signed URL on "complete" and with an
\* error on "error", on an unknown status and on a failed request.
C30_ExportPollsOnlyWhileActive ==
  /\ \A i \in 1..Len(last.requests) :
       last.requests[i].kind = "poll" => last.requests[i].after = "active"
  /\ last.pc = "done" =>
       (last.err = NilError <=> (last.status = "complete" /\ last.url = "https://signed"))

\* the part of C30 the polling loop keeps: after the first turn of the
\* loop a poll request is sent only while the status last reported is
\* "active"
ExportLoopPollsWhileActive ==
  \A i \in 1..Len(last.requests) :
    (last.requests[i].kind = "poll" /\ i > 2) => last.requests[i].after = "active"

\* the termination part of C30: Export returns
ExportReturns == <>(last.pc = "done")

-----------------------------------------------------------------------------
(* Properties of goroutines on one handle *)

\* the goroutines that hold the mutex of the client, or of the handle, for
\* reading
ReadHolders(onClient) ==
  {p \in 1..NumProcs : /\ OnClient(last.procs[p].op) = onClient
                       /\ last.procs[p].pc \in {"Unlock", "RUnlock"}}

GoAllDone == \A p \in 1..NumProcs : last.procs[p].pc = "done"

\* p waits in Lock() for a read lock that no goroutine is left to release
WaitsForever(p) ==
  /\ last.procs[p].pc = "Lock"
  /\ MuxOf(last.procs[p].op).readers > Cardinality(ReadHolders(OnClient(last.procs[p].op)))

\* C21: in every interleaving of readers of the counters, queries and
\* resets no call releases a lock it does not hold, the mutexes are held by
\* no one once the calls have returned, and no call waits forever.
C21_EveryAcquisitionIsReleased ==
  /\ ~last.fatal
  /\ GoAllDone => (client.mux = NewMutex /\ conn.handle.mux = NewMutex)
  /\ \A p \in 1..NumProcs : ~WaitsForever(p)

\* C25: in every interleaving of ExecContext calls on one handle the
\* result a call returns carries the last row id and the rows written of
\* the metadata of its own execution.
C25_ExecResultIsOfOwnExecution ==
  \A p \in 1..NumProcs :
    (/\ last.procs[p].op = "conn.ExecContext"
     /\ last.procs[p].pc = "done"
     /\ last.procs[p].err = NilError)
    => /\ last.procs[p].res.lastInsertID = last.procs[p].result.LastRowID
       /\ last.procs[p].res.rowsAffected = last.procs[p].result.RowsWritten

=============================================================================
